---------------------------- MODULE Spec2Model ----------------------------
(***************************************************************************)
(* A model of the SLAM core of slam-bot: the collision map                 *)
(* (collision_map.py), the EKF (ekf.py), the orchestrator (slam.py) and    *)
(* the exploration planner (explorer.py).                                  *)
(*                                                                         *)
(* Numbers.  The program computes in floating point; the model computes in *)
(* exact arithmetic over the inputs it enumerates:                         *)
(*   - a coordinate is an integer, or a rational num/den where stated;     *)
(*   - an angle is a non-zero Gaussian integer <<a, b>> standing for       *)
(*     atan2(b, a), so cos = a/|z|, sin = b/|z| and a sum of angles is a   *)
(*     complex product;                                                    *)
(*   - a distance is a surd [n |-> n, r |-> r] standing for n * sqrt(r).   *)
(* An input is enumerated only when every value the code derives from it   *)
(* is rational (Exact below).  Where two candidates tie exactly the model  *)
(* follows the order of the code's comparisons.                            *)
(***************************************************************************)
EXTENDS Integers, Sequences, FiniteSets, TLC

VARIABLES
    scale,          \* CollisionMap.scale
    max_dist,       \* CollisionMap.max_dist
    map,            \* CollisionMap.map: [keys: insertion order, loc: key -> MapLocation]
    calls,          \* history: the record_observations calls made so far
    probes,         \* history: the get_location calls made, with the key each computed
    text,           \* the last string str(collision_map) returned, as characters
    parsed,         \* the last result of CollisionMap.from_string(text)
    pos,            \* Slam.pos: (x, y, theta), theta in quarter turns
    landmarks,      \* Slam.landmarks.db, in insertion order
    point_map,      \* Slam.map, the list of observed points
    slam_pc,        \* where move_observe_and_update stands
    tick,           \* the locals of the running move_observe_and_update
    trace,          \* history: what the last tick called, in order
    ticks,          \* history: the number of ticks started
    landmark_types, \* EKF.landmark_types
    landmark_counts,\* EKF.landmark_counts
    system_state,   \* EKF.system_state, a column of rationals
    covariance,     \* EKF.covariance, the rows of a matrix of rationals
    ekf_options,    \* the keyword arguments the EKF was built with
    ekf_calls,      \* history: the EKF.update calls made, with their outcome
    lx_input,       \* the arguments given to a function of landmark_extraction.py
    lx_output,      \* what the functions returned for lx_input, by name
    space_query,    \* the explorer, the map and the point of a get_space_status call
    space_status,   \* what Explorer.get_space_status returned for space_query
    world,          \* the simulation: World, its walls, the robot's radius, the sensors
    bot,            \* the simulated robot: (x, y, theta), theta in quarter turns
    explorer_options, \* Explorer: size and the three thresholds
    current_path,   \* Explorer.current_path
    fully_explored, \* Explorer.fully_explored
    step_trace,     \* history: what the last call of the explorer called, in order
    odd_step        \* history: whether Explorer.step was called an odd number of times


mapVars == <<scale, max_dist, map, calls>>
keyVars == <<probes>>
serVars == <<text, parsed>>

slamVars == <<pos, landmarks, point_map, slam_pc, tick, trace, ticks>>

ekfVars == <<landmark_types, landmark_counts, system_state, covariance, ekf_options, ekf_calls>>

lxVars == <<lx_input, lx_output>>

statusVars == <<space_query, space_status>>

expVars == <<world, bot, explorer_options, current_path, fully_explored, step_trace,
            odd_step>>

vars == <<mapVars, keyVars, serVars, slamVars, ekfVars, lxVars, statusVars, expVars>>

\* The parts of the state a behaviour does not use stay as constructed.
KeyIdle == probes = <<>>
SerIdle == text = <<>> /\ parsed = [ok |-> FALSE]
SlamIdle ==
    /\ pos = <<0, 0, 0>> /\ landmarks = <<>> /\ point_map = <<>>
    /\ slam_pc = "idle" /\ tick = <<>> /\ trace = <<>> /\ ticks = 0
EkfIdle ==
    /\ landmark_types = <<>> /\ landmark_counts = <<>>
    /\ system_state = << <<0, 1>>, <<0, 1>>, <<0, 1>> >>
    /\ covariance = << << <<1, 1>>, <<0, 1>>, <<0, 1>> >>,
                       << <<0, 1>>, <<1, 1>>, <<0, 1>> >>,
                       << <<0, 1>>, <<0, 1>>, <<1, 1>> >> >>
    /\ ekf_options = <<>> /\ ekf_calls = <<>>
LxIdle ==
    /\ lx_input = <<>> /\ lx_output = <<>>
StatusIdle ==
    /\ space_query = <<>> /\ space_status = <<>>
ExpIdle ==
    /\ world = <<>> /\ bot = <<0, 0, 0>> /\ explorer_options = <<>>
    /\ current_path = <<>> /\ fully_explored = FALSE /\ step_trace = <<>>
    /\ odd_step = FALSE

----------------------------------------------------------------------------
(* Arithmetic helpers *)

Abs(i) == IF i < 0 THEN -i ELSE i

RECURSIVE Gcd(_, _)
Gcd(a, b) == IF b = 0 THEN Abs(a) ELSE Gcd(b, a % Abs(b))

IsSquare(k) == \E i \in 0..k : i * i = k

ISqrt(k) == CHOOSE i \in 0..k : i * i = k

\* theta + delta_theta on angles given as Gaussian integers, reduced.
AngleAdd(z, w) ==
    LET a == z[1] * w[1] - z[2] * w[2]
        b == z[1] * w[2] + z[2] * w[1]
        g == Gcd(a, b)
    IN <<a \div g, b \div g>>

Norm2(z) == z[1] * z[1] + z[2] * z[2]

----------------------------------------------------------------------------
(* collision_map.py *)

\* MapLocation.__init__
MapLocation == [stepped_count |-> 0, missed_count |-> 0, hit_count |-> 0]

EmptyMap == [keys |-> <<>>, loc |-> <<>>]

HasKey(m, key) == key \in DOMAIN m.loc

\* get_discrete_coord(scale, coord) for coord = num/den.
get_discrete_coord(sc, num, den) ==
    LET shifted == 2 * num + den * sc          \* shifted = this / (2 den)
        rem == shifted % (2 * den * sc)        \* shifted % scale, same denominator
    IN (shifted - rem) \div (2 * den)

\* Mutant of get_key: the coordinate is not shifted by half a cell.
get_key_floor(sc, xn, yn, den) ==
    <<(xn - (xn % (den * sc))) \div den, (yn - (yn % (den * sc))) \div den>>

\* Mutant of get_key: the coordinate is shifted by a whole cell.
get_key_shift(sc, xn, yn, den) ==
    <<(xn + den * sc - ((xn + den * sc) % (den * sc))) \div den,
      (yn + den * sc - ((yn + den * sc) % (den * sc))) \div den>>

\* CollisionMap.__get_key(x, y) for x = xn/den, y = yn/den.
get_key(sc, xn, yn, den) ==
    LET shifted_x == 2 * xn + den * sc
        shifted_y == 2 * yn + den * sc
    IN <<(shifted_x - (shifted_x % (2 * den * sc))) \div (2 * den),
         (shifted_y - (shifted_y % (2 * den * sc))) \div (2 * den)>>

\* Mutant of get_or_insert_location: a fresh location replaces the one present.
get_or_insert_location_fresh(m, key) ==
    [keys |-> IF HasKey(m, key) THEN m.keys ELSE Append(m.keys, key),
     loc |-> (key :> MapLocation) @@ m.loc]

\* CollisionMap.__get_or_insert_location: the map with the key present.
get_or_insert_location(m, key) ==
    IF HasKey(m, key) THEN m
    ELSE [keys |-> Append(m.keys, key), loc |-> (key :> MapLocation) @@ m.loc]

\* CollisionMap.get_location(x, y, create), key being __get_key(x, y): the
\* location returned.
get_location(m, key) ==
    IF HasKey(m, key) THEN m.loc[key] ELSE MapLocation

\* Mutant of get_location_map: the location is created whatever create is.
get_location_map_created(m, key, create) ==
    IF ~HasKey(m, key)
    THEN [keys |-> Append(m.keys, key), loc |-> (key :> MapLocation) @@ m.loc]
    ELSE m

\* CollisionMap.get_location(x, y, create), key being __get_key(x, y): the map
\* afterwards.
get_location_map(m, key, create) ==
    IF ~HasKey(m, key) /\ create
    THEN [keys |-> Append(m.keys, key), loc |-> (key :> MapLocation) @@ m.loc]
    ELSE m

\* CollisionMap.get_neighbor_keys, in the order the code appends them.
get_neighbor_keys(sc, x, y) ==
    LET k == get_key(sc, x, y, 1)
    IN << <<k[1] - sc, k[2] - sc>>, <<k[1] - sc, k[2]>>, <<k[1] - sc, k[2] + sc>>,
          <<k[1], k[2] - sc>>, <<k[1], k[2] + sc>>,
          <<k[1] + sc, k[2] - sc>>, <<k[1] + sc, k[2]>>, <<k[1] + sc, k[2] + sc>> >>

InSeq(e, s) == \E i \in DOMAIN s : s[i] = e

\* The element of a set of one element.  {e(v) : v \in {x}} computes x once
\* however often e uses it.
Only(S) == CHOOSE x \in S : TRUE

\* self.__get_or_insert_location(current_location_key).stepped_count += 1
StepIn(m, key) ==
    LET m1 == get_or_insert_location(m, key)
    IN [m1 EXCEPT !.loc[key].stepped_count = @ + 1]

\* Mutant of Hit: the end point is materialized and its hit is not counted.
HitUncounted(m, key) == get_or_insert_location(m, key)

\* self.__get_or_insert_location(end_point_key).hit_count += 1
Hit(m, key) ==
    LET m1 == get_or_insert_location(m, key)
    IN [m1 EXCEPT !.loc[key].hit_count = @ + 1]

\* Mutant of Miss: the cell is flagged as missed, not counted.
MissFlag(m, sc, x, y) ==
    LET m1 == get_location_map(m, get_key(sc, x, y, 1), TRUE)
    IN [m1 EXCEPT !.loc[get_key(sc, x, y, 1)].missed_count = 1]

\* self.get_location(x, y, create = True).missed_count += 1
Miss(m, sc, x, y) ==
    LET m1 == get_location_map(m, get_key(sc, x, y, 1), TRUE)
    IN [m1 EXCEPT !.loc[get_key(sc, x, y, 1)].missed_count = @ + 1]

\* distance <= max_dist, for distance = n * sqrt(r).
WithinMax(dist, md) == dist.n <= 0 \/ dist.n * dist.n * dist.r <= md * md

\* min(distance, max_dist) as a surd.
MinDist(dist, md) == IF WithinMax(dist, md) THEN dist ELSE [n |-> md, r |-> 1]

\* The end point start + min(distance, max_dist) * (cos, sin) is rational.
Exact(z, dist, md) == IsSquare(MinDist(dist, md).r * Norm2(z))

\* The geometry of one line: end point (numerators over den), keys, line.
LineCtx(sc, md, start_x, start_y, z, dist) ==
    LET len == MinDist(dist, md)
        den == Norm2(z)
        q   == ISqrt(len.r * den)              \* sqrt(r) / |z| = q / den
        exn == den * start_x + len.n * q * z[1]
        eyn == den * start_y + len.n * q * z[2]
    IN [den |-> den, end_x |-> exn, end_y |-> eyn,
        start_x |-> start_x, start_y |-> start_y, z |-> z,
        start_point_key |-> get_key(sc, start_x, start_y, 1),
        end_point_key |-> get_key(sc, exn, eyn, den)]

\* den^2 * ((end_x - x)^2 + (end_y - y)^2)
Dist2(c, x, y) ==
    (c.end_x - c.den * x) * (c.end_x - c.den * x)
    + (c.end_y - c.den * y) * (c.end_y - c.den * y)

\* |z| * |a x + b y + c| / sqrt(a^2 + b^2), a = -sin, b = cos, c = sx sin - sy cos
LineError(c, x, y) == Abs(c.z[1] * (y - c.start_y) - c.z[2] * (x - c.start_x))

\* The neighbour the traversal moves to from <<x, y>> (<<>> when there is none):
\* nearer to the end point than <<x, y>>, least error, first found among equals.
NextCell(sc, c, x, y) ==
    LET opts == get_neighbor_keys(sc, x, y)
        ok(i) == Dist2(c, opts[i][1], opts[i][2]) < Dist2(c, x, y)
        err(i) == LineError(c, opts[i][1], opts[i][2])
        best == {i \in DOMAIN opts : ok(i) /\ \A j \in DOMAIN opts :
                    ok(j) => (err(i) < err(j) \/ (err(i) = err(j) /\ i <= j))}
    IN IF best = {} THEN <<>> ELSE opts[CHOOSE i \in best : TRUE]

\* The while loop of __add_line, entered at <<x, y>> with its guard true.
RECURSIVE Traverse(_, _, _, _, _, _)
Traverse(m, sc, md, c, x, y) ==
    Only({IF InSeq(<<x, y>>, get_neighbor_keys(sc, c.end_point_key[1], c.end_point_key[2]))
            THEN m1
          ELSE Only({IF nxt = <<>> THEN m1
                     ELSE IF Dist2(c, nxt[1], nxt[2]) <= c.den * c.den * md * md
                       THEN Traverse(m1, sc, md, c, nxt[1], nxt[2])
                     ELSE m1 :
                     nxt \in {NextCell(sc, c, x, y)}}) :
          m1 \in {IF get_key(sc, x, y, 1) # c.start_point_key THEN Miss(m, sc, x, y) ELSE m}})

\* CollisionMap.__add_line
add_line(m, sc, md, start_x, start_y, z, dist) ==
    Only({Only({IF Dist2(c, c.start_point_key[1], c.start_point_key[2])
                      <= c.den * c.den * md * md
                  THEN Traverse(m1, sc, md, c, c.start_point_key[1], c.start_point_key[2])
                ELSE m1 :
                m1 \in {IF WithinMax(dist, md) THEN Hit(m, c.end_point_key) ELSE m}}) :
          c \in {LineCtx(sc, md, start_x, start_y, z, dist)}})

RECURSIVE AddLines(_, _, _, _, _, _, _)
AddLines(m, sc, md, x, y, theta, observations) ==
    IF observations = <<>> THEN m
    ELSE Only({AddLines(m1, sc, md, x, y, theta, rest) :
               m1 \in {add_line(m, sc, md, x, y,
                                AngleAdd(theta, Head(observations).delta_theta),
                                Head(observations).distance)},
               rest \in {Tail(observations)}})

\* CollisionMap.record_observations
record_observations(m, sc, md, x, y, theta, observations) ==
    Only({AddLines(m1, sc, md, x, y, theta, observations) :
          m1 \in {StepIn(m, get_key(sc, x, y, 1))}})

----------------------------------------------------------------------------
(* The collision map as a state machine *)

\* Bound: record_observations calls per behaviour.
MaxCalls == 2

East == <<1, 0>>
NorthEast == <<1, 1>>
North == <<0, 1>>

Obs(dz, n, r) == [delta_theta |-> dz, distance |-> [n |-> n, r |-> r]]

\* (scale, max_dist) of the maps checked: the default, the unit tests' short
\* range, and a fine grid.
Configs == {<<5, 100>>, <<5, 8>>, <<3, 10>>}

\* (x, y, theta) of the calls checked: cell centres and an off-centre point.
Poses == {<<0, 0, East>>, <<5, -5, North>>, <<0, 0, NorthEast>>, <<2, -1, East>>}

\* The observation lists of the calls checked.
ObsLists == {<<>>,
             <<Obs(East, 10, 1)>>,
             <<Obs(NorthEast, 10, 2)>>,
             <<Obs(East, 0, 1)>>,
             <<Obs(East, -10, 1)>>,
             <<Obs(East, -120, 1)>>,
             <<Obs(East, 10, 2)>>,
             <<Obs(<<-1, 0>>, 12, 1)>>,
             <<Obs(<<2, 1>>, 5, 5)>>,
             <<Obs(<<4, 3>>, 15, 1), Obs(<<1, -1>>, 5, 2)>>}

AllExact(md, theta, observations) ==
    \A i \in DOMAIN observations :
        Exact(AngleAdd(theta, observations[i].delta_theta), observations[i].distance, md)


Init ==
    /\ \E cfg \in Configs : scale = cfg[1] /\ max_dist = cfg[2]
    /\ map = EmptyMap
    /\ calls = <<>>
    /\ KeyIdle /\ SerIdle /\ SlamIdle /\ EkfIdle /\ LxIdle /\ StatusIdle /\ ExpIdle

\* One call of CollisionMap.record_observations(x, y, theta, observations).
RecordObservations ==
    /\ Len(calls) < MaxCalls
    /\ \E pose \in Poses, observations \in ObsLists :
        /\ AllExact(max_dist, pose[3], observations)
        /\ map' = record_observations(map, scale, max_dist,
                                      pose[1], pose[2], pose[3], observations)
        /\ calls' = Append(calls, [x |-> pose[1], y |-> pose[2], theta |-> pose[3],
                                   observations |-> observations])
    /\ UNCHANGED <<scale, max_dist, keyVars, serVars, slamVars, ekfVars, lxVars, statusVars, expVars>>

Next == RecordObservations

Spec == Init /\ [][Next]_vars

\* The unit tests' scenarios (collision_map_unittests.py).
----------------------------------------------------------------------------
(* Behaviours of get_location calls on a map of any scale *)

MaxProbes == 2

KeyScales == {1, 3, 5}

\* Points <<xn, yn, den>>, the point (xn/den, yn/den): the points of the unit
\* test, cell centres, cell boundaries and points next to them.
KeyPoints ==
    {<<2, -2, 1>>, <<3, 3, 1>>, <<-10, -2, 1>>, <<0, 0, 1>>, <<3, -2, 1>>,
     <<5, -5, 2>>, <<-5, 5, 2>>, <<3, -3, 2>>, <<1, -1, 2>>, <<9, -11, 4>>,
     <<5, 5, 1>>, <<7, -4, 1>>, <<-1, 1, 2>>, <<-9, 9, 4>>}

InitKey ==
    /\ scale \in KeyScales
    /\ max_dist = 100
    /\ map = EmptyMap
    /\ calls = <<>>
    /\ probes = <<>>
    /\ SerIdle /\ SlamIdle /\ EkfIdle /\ LxIdle /\ StatusIdle /\ ExpIdle

GetLocation ==
    /\ Len(probes) < MaxProbes
    /\ \E pt \in KeyPoints, create \in BOOLEAN :
        LET key == get_key(scale, pt[1], pt[2], pt[3])
        IN /\ probes' = Append(probes, [xn |-> pt[1], yn |-> pt[2], den |-> pt[3],
                                         create |-> create, key |-> key,
                                         location |-> get_location(map, key)])
           /\ map' = get_location_map(map, key, create)
    /\ UNCHANGED <<scale, max_dist, calls, serVars, slamVars, ekfVars, lxVars, statusVars, expVars>>

NextKey == GetLocation

SpecKey == InitKey /\ [][NextKey]_vars

(* Behaviours that mix record_observations calls with get_location calls *)

\* Bound: get_location calls per behaviour that also records observations.
MaxReads == 1

\* The points read: the cells the rays from (0, 0) cross or end in, the cell
\* the agent stands in, and cells no ray reaches.
ReadPoints == {<<0, 0, 1>>, <<10, 0, 1>>, <<5, 5, 1>>, <<9, -11, 4>>, <<-10, -20, 1>>}

\* The record_observations calls made between the reads: from a cell centre,
\* with a ray along an axis or a ray along a diagonal.
RecordedBetweenReads ==
    {[x |-> pose[1], y |-> pose[2], theta |-> pose[3], observations |-> observations] :
        pose \in {<<0, 0, East>>, <<5, -5, North>>},
        observations \in {<<Obs(East, 10, 1)>>, <<Obs(NorthEast, 10, 2)>>}}

InitRead ==
    /\ scale = 5 /\ max_dist = 100
    /\ map = EmptyMap
    /\ calls = <<>>
    /\ probes = <<>>
    /\ SerIdle /\ SlamIdle /\ EkfIdle /\ LxIdle /\ StatusIdle /\ ExpIdle

\* One call of CollisionMap.get_location(x, y, create) between the calls of
\* record_observations.
ReadLocation ==
    /\ Len(probes) < MaxReads
    /\ \E pt \in ReadPoints, create \in BOOLEAN :
        LET key == get_key(scale, pt[1], pt[2], pt[3])
        IN /\ probes' = Append(probes, [xn |-> pt[1], yn |-> pt[2], den |-> pt[3],
                                         create |-> create, key |-> key,
                                         location |-> get_location(map, key)])
           /\ map' = get_location_map(map, key, create)
    /\ UNCHANGED <<scale, max_dist, calls, serVars, slamVars, ekfVars, lxVars, statusVars, expVars>>

NextRead ==
    \/ RecordObservations /\ calls'[Len(calls')] \in RecordedBetweenReads
    \/ ReadLocation

SpecRead == InitRead /\ [][NextRead]_vars

----------------------------------------------------------------------------
(* Serialization of the collision map (specification section 6): str(map) and
   CollisionMap.from_string. A string is a sequence of one-character strings. *)

Digits == <<"0", "1", "2", "3", "4", "5", "6", "7", "8", "9">>

IsDigit(ch) == \E d \in 1..10 : Digits[d] = ch

DigitValue(ch) == (CHOOSE d \in 1..10 : Digits[d] = ch) - 1

\* Decimal digits of a natural number, most significant first.
RECURSIVE NatToStr(_)
NatToStr(n) ==
    IF n < 10 THEN <<Digits[n + 1]>>
    ELSE Append(NatToStr(n \div 10), Digits[(n % 10) + 1])

\* Mutant of IntToStr: the sign is not written.
IntToStrUnsigned(i) == NatToStr(Abs(i))

\* str(i) of an integer.
IntToStr(i) == IF i < 0 THEN <<"-">> \o NatToStr(-i) ELSE NatToStr(i)

IsNat(s) == Len(s) > 0 /\ \A i \in DOMAIN s : IsDigit(s[i])

IsInt(s) == IsNat(s) \/ (Len(s) > 1 /\ s[1] = "-" /\ IsNat(Tail(s)))

RECURSIVE StrToNat(_)
StrToNat(s) ==
    IF s = <<>> THEN 0
    ELSE 10 * StrToNat(SubSeq(s, 1, Len(s) - 1)) + DigitValue(s[Len(s)])

\* int(s) of a decimal literal.
StrToInt(s) == IF s[1] = "-" THEN -StrToNat(Tail(s)) ELSE StrToNat(s)

\* sep.join(parts)
RECURSIVE Join(_, _)
Join(parts, sep) ==
    IF parts = <<>> THEN <<>>
    ELSE IF Len(parts) = 1 THEN parts[1]
    ELSE parts[1] \o <<sep>> \o Join(Tail(parts), sep)

\* s.split(sep)
Split(s, sep) ==
    LET seps == {i \in DOMAIN s : s[i] = sep}
        n == Cardinality(seps)
        nth(k) == IF k = 0 THEN 0
                  ELSE IF k = n + 1 THEN Len(s) + 1
                  ELSE CHOOSE q \in seps : Cardinality({r \in seps : r < q}) = k - 1
    IN [k \in 1..(n + 1) |-> SubSeq(s, nth(k - 1) + 1, nth(k) - 1)]

VersionLine == <<"v", "1">>

ConfigHeader ==
    <<"s", "c", "a", "l", "e", ",", "m", "a", "x", "_", "d", "i", "s", "t">>

CellHeader ==
    <<"x", ",", "y", ",",
      "s", "t", "e", "p", "p", "e", "d", "_", "c", "o", "u", "n", "t", ",",
      "m", "i", "s", "s", "e", "d", "_", "c", "o", "u", "n", "t", ",",
      "h", "i", "t", "_", "c", "o", "u", "n", "t">>

\* The line <x>,<y>,<s>,<m>,<h> of a cell.
CellLine(m, key) ==
    Join(<<IntToStr(key[1]), IntToStr(key[2]),
           IntToStr(m.loc[key].stepped_count),
           IntToStr(m.loc[key].missed_count),
           IntToStr(m.loc[key].hit_count)>>, ",")

\* str(collision_map): the version 1 text, cells in insertion order, no
\* trailing newline.
to_string(m, sc, md) ==
    Join(<<VersionLine, ConfigHeader, Join(<<IntToStr(sc), IntToStr(md)>>, ","), CellHeader>>
         \o [i \in 1..Len(m.keys) |-> CellLine(m, m.keys[i])], "\n")

MalformedMap == [ok |-> FALSE]

\* The cells of the lines after the header: keys in the order of their first
\* line, counters of the last line of each key.
CellsOf(rows) ==
    LET key(i) == <<StrToInt(rows[i][1]), StrToInt(rows[i][2])>>
        first == {i \in DOMAIN rows : \A j \in 1..(i - 1) : key(j) # key(i)}
        nth(k) == CHOOSE i \in first : Cardinality({j \in first : j < i}) = k - 1
        last(kk) == CHOOSE i \in DOMAIN rows :
                        key(i) = kk /\ \A j \in DOMAIN rows : key(j) = kk => j <= i
    IN [keys |-> [k \in 1..Cardinality(first) |-> key(nth(k))],
        loc |-> [kk \in {key(i) : i \in DOMAIN rows} |->
                    [stepped_count |-> StrToInt(rows[last(kk)][3]),
                     missed_count |-> StrToInt(rows[last(kk)][4]),
                     hit_count |-> StrToInt(rows[last(kk)][5])]]]

\* CollisionMap.from_string(text): the map read, or the argument error of a
\* malformed text.
from_string(t) ==
    LET lines == Split(t, "\n")
        config == Split(lines[3], ",")
        rows == [i \in 1..(Len(lines) - 4) |-> Split(lines[i + 4], ",")]
    IN IF /\ Len(lines) >= 4
          /\ lines[1] = VersionLine
          /\ lines[2] = ConfigHeader
          /\ lines[4] = CellHeader
          /\ Len(config) = 2 /\ IsNat(config[1]) /\ IsNat(config[2])
          /\ StrToInt(config[1]) > 0 /\ StrToInt(config[2]) > 0
          /\ \A i \in DOMAIN rows :
                Len(rows[i]) = 5 /\ \A f \in 1..5 : IsInt(rows[i][f])
       THEN [ok |-> TRUE, scale |-> StrToInt(config[1]), max_dist |-> StrToInt(config[2]),
             map |-> CellsOf(rows)]
       ELSE MalformedMap

MaxSerCalls == 2

SerConfigs == Configs \cup {<<50, 1000>>}

SerCalls ==
    {[x |-> p[1], y |-> p[2], theta |-> p[3], observations |-> o] :
        p \in {<<0, 0, East>>, <<5, -5, North>>},
        o \in {<<>>, <<Obs(East, 10, 1)>>, <<Obs(East, -10, 1)>>,
               <<Obs(East, 20, 1)>>, <<Obs(<<4, 3>>, 15, 1), Obs(<<1, -1>>, 5, 2)>>}}

RECURSIVE ReplayCalls(_, _, _, _)
ReplayCalls(m, sc, md, cs) ==
    IF cs = <<>> THEN m
    ELSE ReplayCalls(record_observations(m, sc, md, Head(cs).x, Head(cs).y, Head(cs).theta,
                                         Head(cs).observations),
                     sc, md, Tail(cs))

NoText == <<>>

\* A map some record_observations calls have filled, not yet serialized.
InitSer ==
    /\ \E cfg \in SerConfigs : scale = cfg[1] /\ max_dist = cfg[2]
    /\ calls \in UNION {[1..n -> SerCalls] : n \in 0..MaxSerCalls}
    /\ \A i \in DOMAIN calls : AllExact(max_dist, calls[i].theta, calls[i].observations)
    /\ map = ReplayCalls(EmptyMap, scale, max_dist, calls)
    /\ text = NoText
    /\ parsed = MalformedMap
    /\ KeyIdle /\ SlamIdle /\ EkfIdle /\ LxIdle /\ StatusIdle /\ ExpIdle

\* text = str(collision_map)
Repr ==
    /\ text' = to_string(map, scale, max_dist)
    /\ UNCHANGED <<mapVars, keyVars, parsed, slamVars, ekfVars, lxVars, statusVars, expVars>>

\* parsed = CollisionMap.from_string(text)
FromString ==
    /\ text # NoText
    /\ parsed' = from_string(text)
    /\ UNCHANGED <<mapVars, keyVars, text, slamVars, ekfVars, lxVars, statusVars, expVars>>

NextSer == Repr \/ FromString

SpecSer == InitSer /\ [][NextSer]_vars

----------------------------------------------------------------------------
(* slam.py: Slam.move_observe_and_update, one action per statement group.
   Angles are whole quarter turns; a scan is a list of distances. *)

\* cos and sin of q quarter turns.
CosQ(q) == <<1, 0, -1, 0>>[(q % 4) + 1]
SinQ(q) == <<0, 1, 0, -1>>[(q % 4) + 1]

\* Slam.ransac_consensus
ransac_consensus == 30

\* Slam.landmark_association_threshold
landmark_association_threshold == 5

\* Slam.spike_threshold = 0.5, as the fraction 1 / SpikeThresholdDen
SpikeThresholdDen == 2

\* The condition of extract_spike for index i (from 0) of the scan.
IsSpike(raw_data, i) ==
    LET n == Len(raw_data)
        A == raw_data[((i - 1) % n) + 1]
        B == raw_data[i + 1]
        C == raw_data[((i + 1) % n) + 1]
    IN A >= 0 /\ B >= 0 /\ C >= 0 /\ SpikeThresholdDen * ((A - B) + (C - B)) >= 1

\* Slam.extract_spike for scans whose spikes are at index 0, where the
\* direction theta - radians(0) is a whole number of quarter turns.
extract_spike(p, raw_data) ==
    IF raw_data # <<>> /\ IsSpike(raw_data, 0)
    THEN << <<p[1] + raw_data[1] * CosQ(p[3]), p[2] + raw_data[1] * SinQ(p[3])>> >>
    ELSE <<>>

\* Slam.extract_ransac for scans of fewer than ransac_consensus readings: the
\* loop is left at its first test.
extract_ransac(p, raw_data) == <<>>

\* LandmarkDB.find_nearest: the index of the nearest landmark of the type, the
\* first of those at the least distance, or 0 for None.
find_nearest(db, landmark_type, lx, ly) ==
    LET d2(i) == (lx - db[i].x) * (lx - db[i].x) + (ly - db[i].y) * (ly - db[i].y)
        same == {i \in DOMAIN db : db[i].landmark_type = landmark_type}
    IN IF same = {} THEN 0
       ELSE CHOOSE i \in same : \A j \in same : d2(i) < d2(j) \/ (d2(i) = d2(j) /\ i <= j)

\* Slam.associate_landmarks: the database afterwards.
RECURSIVE associate_landmarks(_, _, _)
associate_landmarks(db, landmark_type, found) ==
    IF found = <<>> THEN db
    ELSE LET lx == Head(found)[1]
             ly == Head(found)[2]
             i == find_nearest(db, landmark_type, lx, ly)
             far == i = 0 \/ (lx - db[i].x) * (lx - db[i].x) + (ly - db[i].y) * (ly - db[i].y)
                               > landmark_association_threshold * landmark_association_threshold
             db1 == IF far
                    THEN Append(db, [landmark_type |-> landmark_type, x |-> lx, y |-> ly,
                                     times_seen |-> 1])
                    ELSE [db EXCEPT ![i].times_seen = @ + 1]
         IN associate_landmarks(db1, landmark_type, Tail(found))

MaxTicks == 2

\* The commands (theta in quarter turns, distance) given to the tick.
SlamCommands == {<<0, 0>>, <<0, 5>>, <<1, 5>>, <<-1, 5>>, <<2, 10>>}

\* The scans the control returns; their spikes, if any, are at index 0.
SlamScans == {<<>>, <<3>>, <<1, 3, 3>>, <<3, 3, 3>>, <<8, 10, 10>>, <<-1, 3, 3>>}

SpikesAtZero(raw_data) == \A i \in 1..(Len(raw_data) - 1) : ~IsSpike(raw_data, i)

\* Slam.__init__ with a control
InitSlam ==
    /\ pos = <<0, 0, 0>>
    /\ landmarks = <<>>
    /\ point_map = <<>>
    /\ slam_pc = "idle"
    /\ tick = <<>>
    /\ trace = <<>>
    /\ ticks = 0
    /\ scale = 5 /\ max_dist = 100 /\ map = EmptyMap /\ calls = <<>>
    /\ KeyIdle /\ SerIdle /\ EkfIdle /\ LxIdle /\ StatusIdle /\ ExpIdle

\* A caller enters move_observe_and_update(theta, distance).
SlamCall ==
    /\ slam_pc = "idle"
    /\ ticks < MaxTicks
    /\ \E cmd \in SlamCommands :
        tick' = [theta |-> cmd[1], distance |-> cmd[2]]
    /\ slam_pc' = "move"
    /\ trace' = <<>>
    /\ ticks' = ticks + 1
    /\ UNCHANGED <<pos, landmarks, point_map, mapVars, keyVars, serVars, ekfVars, lxVars, statusVars, expVars>>

\* odemetry = self.control.move(theta, distance): the distance travelled is the
\* commanded one, or less when the robot is obstructed.
SlamMove ==
    /\ slam_pc = "move"
    /\ \E odemetry \in {tick.distance, 0} :
        tick' = [theta |-> tick.theta, distance |-> tick.distance, odemetry |-> odemetry]
    /\ trace' = Append(trace, "move")
    /\ slam_pc' = "read"
    /\ UNCHANGED <<pos, landmarks, point_map, ticks, mapVars, keyVars, serVars, ekfVars, lxVars, statusVars, expVars>>

\* observations = self.control.get_distance_reading()
SlamRead ==
    /\ slam_pc = "read"
    /\ \E observations \in SlamScans :
        /\ Len(observations) < ransac_consensus
        /\ SpikesAtZero(observations)
        /\ tick' = [theta |-> tick.theta, distance |-> tick.distance,
                    odemetry |-> tick.odemetry, observations |-> observations]
    /\ trace' = Append(trace, "get_distance_reading")
    /\ slam_pc' = "belief"
    /\ UNCHANGED <<pos, landmarks, point_map, ticks, mapVars, keyVars, serVars, ekfVars, lxVars, statusVars, expVars>>

\* Update belief: the pose is dead-reckoned from the odometry.
SlamBelief ==
    /\ slam_pc = "belief"
    /\ pos' = <<pos[1] + tick.odemetry * CosQ(pos[3] + tick.theta),
                pos[2] + tick.odemetry * SinQ(pos[3] + tick.theta),
                pos[3] + tick.theta>>
    /\ slam_pc' = "extract"
    /\ UNCHANGED <<landmarks, point_map, tick, trace, ticks, mapVars, keyVars, serVars, ekfVars, lxVars, statusVars, expVars>>

\* Extract landmarks: extract_spike, then extract_ransac.
SlamExtract ==
    /\ slam_pc = "extract"
    /\ tick' = [theta |-> tick.theta, distance |-> tick.distance,
                odemetry |-> tick.odemetry, observations |-> tick.observations,
                spike_landmarks |-> extract_spike(pos, tick.observations),
                ransac_landmarks |-> extract_ransac(pos, tick.observations)]
    /\ trace' = trace \o <<"extract_spike", "extract_ransac">>
    /\ slam_pc' = "associate"
    /\ UNCHANGED <<pos, landmarks, point_map, ticks, mapVars, keyVars, serVars, ekfVars, lxVars, statusVars, expVars>>

\* Associate landmarks: the spike landmarks, then the RANSAC landmarks.
SlamAssociate ==
    /\ slam_pc = "associate"
    /\ landmarks' = associate_landmarks(
                        associate_landmarks(landmarks, "SPIKE", tick.spike_landmarks),
                        "RANSAC", tick.ransac_landmarks)
    /\ trace' = trace \o <<"associate_landmarks", "associate_landmarks">>
    /\ slam_pc' = "point_map"
    /\ UNCHANGED <<pos, point_map, tick, ticks, mapVars, keyVars, serVars, ekfVars, lxVars, statusVars, expVars>>

\* Update point map: the loop names raw_data, which is no name of this scope,
\* so NameError leaves the method before anything is appended.
SlamPointMap ==
    /\ slam_pc = "point_map"
    /\ trace' = Append(trace, "NameError")
    /\ slam_pc' = "idle"
    /\ UNCHANGED <<pos, landmarks, point_map, tick, ticks, mapVars, keyVars, serVars, ekfVars, lxVars, statusVars, expVars>>

NextSlam ==
    \/ SlamCall
    \/ SlamMove
    \/ SlamRead
    \/ SlamBelief
    \/ SlamExtract
    \/ SlamAssociate
    \/ SlamPointMap

SpecSlam == InitSlam /\ [][NextSlam]_vars

----------------------------------------------------------------------------
(* ekf.py.  A matrix entry is a rational <<n, d>> in lowest terms, d > 0; a
   matrix is the sequence of its rows.  The heading system_state[3] is kept
   in whole quarter turns, so that cos and sin are exact.  An update is
   enumerated only when everything the code derives from it is rational:
   a turn meets no odometry noise (the control noise multiplies delta_theta
   in radians), the distances it takes roots of are rational (ExactRoots),
   and a landmark that is corrected by the Kalman gain is seen where the
   state holds it, so that its deviation is zero (ExactDeviations). *)

Rat(n, d) == LET g == Gcd(n, d) IN <<n \div g, d \div g>>

RInt(n) == <<n, 1>>

RAdd(a, b) ==
    LET g == Gcd(a[2], b[2])
    IN Rat(a[1] * (b[2] \div g) + b[1] * (a[2] \div g), (a[2] \div g) * b[2])

RSub(a, b) == RAdd(a, <<-b[1], b[2]>>)

RMul(a, b) ==
    LET g1 == Gcd(a[1], b[2])
        g2 == Gcd(b[1], a[2])
    IN IF a[1] = 0 \/ b[1] = 0 THEN <<0, 1>>
       ELSE <<(a[1] \div g1) * (b[1] \div g2), (a[2] \div g2) * (b[2] \div g1)>>

\* a / b for b # 0
RDiv(a, b) ==
    IF b[1] > 0 THEN RMul(a, <<b[2], b[1]>>) ELSE RMul(a, <<-b[2], -b[1]>>)

RLe(a, b) ==
    LET g == Gcd(a[2], b[2])
    IN a[1] * (b[2] \div g) <= b[1] * (a[2] \div g)

RECURSIVE DotTo(_, _, _)
DotTo(u, v, n) ==
    IF n = 0 THEN RInt(0) ELSE RAdd(DotTo(u, v, n - 1), RMul(u[n], v[n]))

Dot(u, v) == DotTo(u, v, Len(u))

\* A matrix or a vector is built once and held, as an array is: Held makes
\* the tuple of a function on 1..n.
Held(f) == f \o <<>>

Column(A, j) == Held([i \in 1..Len(A) |-> A[i][j]])

\* np.transpose
Transpose(A) == Held([j \in 1..Len(A[1]) |-> Column(A, j)])

\* the operator @
MatMul(A, B) ==
    Held([i \in 1..Len(A) |-> Held([j \in 1..Len(B[1]) |-> Dot(A[i], Column(B, j))])])

MatAdd(A, B) ==
    Held([i \in 1..Len(A) |-> Held([j \in 1..Len(A[1]) |-> RAdd(A[i][j], B[i][j])])])

\* The slice A[r0:r1, c0:c1], with rows and columns counted from 1 and the
\* last ones included.
Block(A, r0, r1, c0, c1) ==
    Held([i \in 1..(r1 - r0 + 1) |->
            Held([j \in 1..(c1 - c0 + 1) |-> A[r0 + i - 1][c0 + j - 1]])])

\* np.eye(n) * value
Eye(n, value) ==
    Held([i \in 1..n |-> Held([j \in 1..n |-> IF i = j THEN value ELSE RInt(0)])])

\* np.linalg.inv of a 2 x 2 matrix whose determinant is not 0.
Det2(S) == RSub(RMul(S[1][1], S[2][2]), RMul(S[1][2], S[2][1]))
Inv2(S) ==
    LET det == Det2(S)
    IN << <<RDiv(S[2][2], det), RDiv(RSub(RInt(0), S[1][2]), det)>>,
          <<RDiv(RSub(RInt(0), S[2][1]), det), RDiv(S[1][1], det)>> >>

ekf_index(landmark_index) == 3 + (2 * landmark_index)

\* The row of system_state, counted from 1, that holds the x of the k-th
\* landmark, k counted from 1.
RowOf(k) == ekf_index(k - 1) + 1

\* An EKF object: its lists and matrices.
Ekf(types, counts, state, cov) ==
    [landmark_types |-> types, landmark_counts |-> counts,
     system_state |-> state, covariance |-> cov]

\* EKF.pos_after_move; the position is whole in every state reached.
pos_after_move(state, delta_theta, odemetry) ==
    LET theta == state[3][1] + delta_theta
    IN <<RInt(state[1][1] + odemetry * CosQ(theta)),
         RInt(state[2][1] + odemetry * SinQ(theta)),
         RInt(theta)>>

\* EKF.__prediction_model_jacobian
prediction_model_jacobian(pos_theta, odemetry) ==
    << <<RInt(1), RInt(0), RInt(-odemetry * CosQ(pos_theta))>>,
       <<RInt(0), RInt(1), RInt(odemetry * SinQ(pos_theta))>>,
       <<RInt(0), RInt(0), RInt(1)>> >>

\* EKF.__control_noise.  The third component is delta_theta in radians; the
\* updates enumerated have delta_theta = 0 or no odometry noise, so every
\* product it enters is 0.
control_noise(opts, pos_theta, delta_theta, odemetry) ==
    LET components == <<RInt(odemetry * CosQ(pos_theta)),
                        RInt(odemetry * SinQ(pos_theta)),
                        RInt(delta_theta)>>
    IN Held([i \in 1..3 |-> Held([j \in 1..3 |->
            RMul(RMul(opts.ekf_odometry_noise, components[i]), components[j])])])

\* EKF.__update_position_covariance: the pose block is rewritten.
update_position_covariance(cov, opts, pos_theta, delta_theta, odemetry) ==
    LET pmj == prediction_model_jacobian(pos_theta, odemetry)
        P3 == MatAdd(MatMul(MatMul(pmj, Block(cov, 1, 3, 1, 3)), Transpose(pmj)),
                     control_noise(opts, pos_theta, delta_theta, odemetry))
    IN Held([i \in 1..Len(cov) |-> Held([j \in 1..Len(cov) |->
            IF i <= 3 /\ j <= 3 THEN P3[i][j] ELSE cov[i][j]])])

RIsSquare(q) == q[1] >= 0 /\ IsSquare(q[1]) /\ IsSquare(q[2])
RSqrt(q) == <<ISqrt(q[1]), ISqrt(q[2])>>

\* (ax - bx) ** 2 + (ay - by) ** 2
Dist2R(ax, ay, bx, by) ==
    RAdd(RMul(RSub(ax, bx), RSub(ax, bx)), RMul(RSub(ay, by), RSub(ay, by)))

\* EKF.__landmark: (x, y, type) of the k-th landmark, k counted from 1.
landmark(e, k) ==
    <<e.system_state[RowOf(k)], e.system_state[RowOf(k) + 1], e.landmark_types[k]>>

\* The squared distance from the pose to the k-th landmark.
PoseDist2(e, k) ==
    Dist2R(e.system_state[1], e.system_state[2], landmark(e, k)[1], landmark(e, k)[2])

\* The squared distance from the pose to an observed landmark (x, y, type).
SeenDist2(e, other) ==
    Dist2R(e.system_state[1], e.system_state[2], RInt(other[1]), RInt(other[2]))

\* Mutant of landmark_dist: the types are not compared.
landmark_dist_any_type(e, k, other) ==
    [inf |-> FALSE,
     d2 |-> Dist2R(e.system_state[RowOf(k)], e.system_state[RowOf(k) + 1],
                   RInt(other[1]), RInt(other[2]))]

\* EKF.__landmark_dist, squared: inf for a landmark of another type.
landmark_dist(e, k, other) ==
    IF landmark(e, k)[3] # other[3]
    THEN [inf |-> TRUE, d2 |-> RInt(0)]
    ELSE [inf |-> FALSE,
          d2 |-> Dist2R(landmark(e, k)[1], landmark(e, k)[2], RInt(other[1]), RInt(other[2]))]

DistLess(a, b) == ~a.inf /\ (b.inf \/ ~RLe(b.d2, a.d2))

\* min(range(len(self.landmark_types)), key=...): the first index of least distance.
closest_index(e, other) ==
    CHOOSE k \in 1..Len(e.landmark_types) :
        \A j \in 1..Len(e.landmark_types) :
            IF j < k THEN DistLess(landmark_dist(e, k, other), landmark_dist(e, j, other))
                     ELSE ~DistLess(landmark_dist(e, j, other), landmark_dist(e, k, other))

\* EKF.__measurement_model_jacobian
measurement_model_jacobian(e, k) ==
    LET x == e.system_state[1]
        y == e.system_state[2]
        lx == landmark(e, k)[1]
        ly == landmark(e, k)[2]
        r2 == PoseDist2(e, k)
        r == RSqrt(r2)
        m00 == RDiv(RSub(x, lx), r)
        m01 == RDiv(RSub(y, ly), r)
        m10 == RDiv(RSub(ly, y), r2)
        m11 == RDiv(RSub(lx, x), r2)
        zero == RInt(0)
    IN << Held([j \in 1..Len(e.system_state) |->
              IF j = RowOf(k) THEN RSub(zero, m00)
              ELSE IF j = RowOf(k) + 1 THEN RSub(zero, m01)
              ELSE IF j = 1 THEN m00
              ELSE IF j = 2 THEN m01
              ELSE zero]),
          Held([j \in 1..Len(e.system_state) |->
              IF j = RowOf(k) THEN RSub(zero, m10)
              ELSE IF j = RowOf(k) + 1 THEN RSub(zero, m11)
              ELSE IF j = 1 THEN m10
              ELSE IF j = 2 THEN m11
              ELSE IF j = 3 THEN RInt(-1)
              ELSE zero]) >>

\* Mutant of landmark_error: the range noise is not scaled by the distance.
landmark_error_unscaled(opts, d2) ==
    << <<opts.ekf_range_noise, RInt(0)>>,
       <<RInt(0), opts.ekf_bearing_noise>> >>

\* partial_landmark_error once its [0][0] is completed for a landmark at
\* squared distance d2 from the pose.
landmark_error(opts, d2) ==
    << <<RMul(RSqrt(d2), opts.ekf_range_noise), RInt(0)>>,
       <<RInt(0), opts.ekf_bearing_noise>> >>

\* EKF.__landmark_innovation_covariance
landmark_innovation_covariance(e, k, error) ==
    LET mmj == measurement_model_jacobian(e, k)
    IN MatAdd(MatMul(MatMul(mmj, e.covariance), Transpose(mmj)), error)

\* The body of the loop of EKF.__associate_landmarks for one observed
\* landmark: the index it is associated with, 0 when it is new, -1 when
\* np.linalg.inv raises LinAlgError.
associate_landmark(e, opts, other) ==
    IF Len(e.landmark_types) = 0 THEN 0
    ELSE LET k == closest_index(e, other)
         IN IF landmark_dist(e, k, other).inf THEN 0
            ELSE LET innovation == << <<RSub(landmark(e, k)[1], RInt(other[1]))>>,
                                      <<RSub(landmark(e, k)[2], RInt(other[2]))>> >>
                     ic == landmark_innovation_covariance(
                               e, k, landmark_error(opts, PoseDist2(e, k)))
                     gate == MatMul(MatMul(Transpose(innovation), Inv2(ic)), innovation)
                 IN IF Det2(ic) = RInt(0) THEN -1
                    ELSE IF RLe(gate[1][1], opts.ekf_innovation_lambda) THEN k
                    ELSE 0

\* EKF.__associate_landmarks: for each observed landmark, in order, what
\* associate_landmark finds.
associate_landmarks_ekf(e, opts, observed_landmarks) ==
    Held([i \in 1..Len(observed_landmarks) |->
            associate_landmark(e, opts, observed_landmarks[i])])

\* landmark_deviation of EKF.__update_system_state, (range, bearing) of the
\* observation less those of the landmark, for an observation on the
\* landmark's bearing.
landmark_deviation(e, k, observation) ==
    << <<RSub(RSqrt(SeenDist2(e, observation)), RSqrt(PoseDist2(e, k)))>>,
       <<RInt(0)>> >>

\* Mutant of update_landmark: the Kalman gain is applied whatever the count.
update_landmark_unconfirmed(e, opts, observation, k) ==
    LET counts == [e.landmark_counts EXCEPT ![k] = @ + 1]
        mmj == measurement_model_jacobian(e, k)
        ic == landmark_innovation_covariance(e, k, landmark_error(opts, PoseDist2(e, k)))
        kalman_gain == MatMul(MatMul(e.covariance, Transpose(mmj)), Inv2(ic))
        change == MatMul(kalman_gain, landmark_deviation(e, k, observation))
    IN Ekf(e.landmark_types, counts,
           Held([i \in 1..Len(e.system_state) |-> RAdd(e.system_state[i], change[i][1])]),
           e.covariance)

\* The body of the loop of EKF.__update_system_state for one associated
\* landmark: the count is raised, and past the threshold the Kalman gain is
\* applied to the system state.
update_landmark(e, opts, observation, k) ==
    LET counts == [e.landmark_counts EXCEPT ![k] = @ + 1]
        mmj == measurement_model_jacobian(e, k)
        ic == landmark_innovation_covariance(e, k, landmark_error(opts, PoseDist2(e, k)))
        kalman_gain == MatMul(MatMul(e.covariance, Transpose(mmj)), Inv2(ic))
        change == MatMul(kalman_gain, landmark_deviation(e, k, observation))
    IN IF counts[k] <= opts.ekf_landmark_threshold
       THEN Ekf(e.landmark_types, counts, e.system_state, e.covariance)
       ELSE Ekf(e.landmark_types, counts,
                Held([i \in 1..Len(e.system_state) |-> RAdd(e.system_state[i], change[i][1])]),
                e.covariance)

\* EKF.__update_system_state over the observations that were associated.
RECURSIVE update_system_state(_, _, _, _)
update_system_state(e, opts, observed_landmarks, associated) ==
    IF observed_landmarks = <<>> THEN e
    ELSE update_system_state(
             IF Head(associated) > 0
             THEN update_landmark(e, opts, Head(observed_landmarks), Head(associated))
             ELSE e,
             opts, Tail(observed_landmarks), Tail(associated))

\* EKF.__resize: both matrices are padded with zeros.
resize(e, new_size) ==
    LET old_size == ekf_index(Len(e.landmark_types))
    IN IF new_size = old_size THEN e
       ELSE Ekf(e.landmark_types, e.landmark_counts,
                Held([i \in 1..new_size |->
                        IF i <= old_size THEN e.system_state[i] ELSE RInt(0)]),
                Held([i \in 1..new_size |-> Held([j \in 1..new_size |->
                    IF i <= old_size /\ j <= old_size THEN e.covariance[i][j] ELSE RInt(0)])]))

\* The assignments of EKF.__add_landmarks to the covariance for the landmark
\* whose x is at row a (counted from 1) and which comes after every landmark
\* held: the landmark's own block, the landmark-agent blocks, without the
\* assignment of line 264 which mirrors the second of them.
insert_covariance_one_sided(cov, jacobian, self_covariance, a) ==
    LET agent == MatMul(Block(cov, 1, 3, 1, 3), Transpose(jacobian))
        other(j) == MatMul(jacobian, Block(cov, 1, 3, j, j))
    IN Held([i \in 1..Len(cov) |-> Held([j \in 1..Len(cov) |->
            IF i \in {a, a + 1} /\ j \in {a, a + 1} THEN self_covariance[i - a + 1][j - a + 1]
            ELSE IF i <= 3 /\ j \in {a, a + 1} THEN agent[i][j - a + 1]
            ELSE IF i \in {a, a + 1} /\ 3 < j /\ j < a THEN other(j)[i - a + 1][1]
            ELSE IF 3 < i /\ i < a /\ j \in {a, a + 1} THEN other(i)[j - a + 1][1]
            ELSE cov[i][j]])])

\* The assignments of EKF.__add_landmarks to the covariance for the landmark
\* whose x is at row a (counted from 1) and which comes after every landmark
\* held: the landmark's own block, the landmark-agent blocks and the
\* landmark-landmark blocks, each with its mirror image.
insert_covariance(cov, jacobian, self_covariance, a) ==
    LET agent == MatMul(Block(cov, 1, 3, 1, 3), Transpose(jacobian))
        other(j) == MatMul(jacobian, Block(cov, 1, 3, j, j))
    IN Held([i \in 1..Len(cov) |-> Held([j \in 1..Len(cov) |->
            IF i \in {a, a + 1} /\ j \in {a, a + 1} THEN self_covariance[i - a + 1][j - a + 1]
            ELSE IF i <= 3 /\ j \in {a, a + 1} THEN agent[i][j - a + 1]
            ELSE IF i \in {a, a + 1} /\ j <= 3 THEN agent[j][i - a + 1]
            ELSE IF i \in {a, a + 1} /\ 3 < j /\ j < a THEN other(j)[i - a + 1][1]
            ELSE IF 3 < i /\ i < a /\ j \in {a, a + 1} THEN other(i)[j - a + 1][1]
            ELSE cov[i][j]])])

\* Mutant of add_landmark: the count of a new landmark starts at 0.
add_landmark_unseen(e, opts, odemetry, new_landmark) ==
    LET next_index == ekf_index(Len(e.landmark_types))
        pos_theta == e.system_state[3][1]
        landmark_prediction_jacobian ==
            << <<RInt(1), RInt(0), RInt(-odemetry * SinQ(pos_theta))>>,
               <<RInt(0), RInt(1), RInt(odemetry * CosQ(pos_theta))>> >>
        landmark_range_bearing_jacobian ==
            << <<RInt(CosQ(pos_theta)), RInt(-odemetry * SinQ(pos_theta))>>,
               <<RInt(SinQ(pos_theta)), RInt(odemetry * CosQ(pos_theta))>> >>
        error == landmark_error(opts, SeenDist2(e, new_landmark))
        self_covariance ==
            MatAdd(MatMul(MatMul(landmark_prediction_jacobian, Block(e.covariance, 1, 3, 1, 3)),
                          Transpose(landmark_prediction_jacobian)),
                   MatMul(MatMul(landmark_range_bearing_jacobian, error),
                          Transpose(landmark_range_bearing_jacobian)))
    IN Ekf(Append(e.landmark_types, new_landmark[3]),
           Append(e.landmark_counts, 0),
           [e.system_state EXCEPT ![next_index + 1] = RInt(new_landmark[1]),
                                  ![next_index + 2] = RInt(new_landmark[2])],
           insert_covariance(e.covariance, landmark_prediction_jacobian,
                             self_covariance, next_index + 1))

\* The body of the loop of EKF.__add_landmarks for one new landmark, once the
\* matrices are resized.
add_landmark(e, opts, odemetry, new_landmark) ==
    LET next_index == ekf_index(Len(e.landmark_types))
        pos_theta == e.system_state[3][1]
        landmark_prediction_jacobian ==
            << <<RInt(1), RInt(0), RInt(-odemetry * SinQ(pos_theta))>>,
               <<RInt(0), RInt(1), RInt(odemetry * CosQ(pos_theta))>> >>
        landmark_range_bearing_jacobian ==
            << <<RInt(CosQ(pos_theta)), RInt(-odemetry * SinQ(pos_theta))>>,
               <<RInt(SinQ(pos_theta)), RInt(odemetry * CosQ(pos_theta))>> >>
        error == landmark_error(opts, SeenDist2(e, new_landmark))
        self_covariance ==
            MatAdd(MatMul(MatMul(landmark_prediction_jacobian, Block(e.covariance, 1, 3, 1, 3)),
                          Transpose(landmark_prediction_jacobian)),
                   MatMul(MatMul(landmark_range_bearing_jacobian, error),
                          Transpose(landmark_range_bearing_jacobian)))
    IN Ekf(Append(e.landmark_types, new_landmark[3]),
           Append(e.landmark_counts, 1),
           [e.system_state EXCEPT ![next_index + 1] = RInt(new_landmark[1]),
                                  ![next_index + 2] = RInt(new_landmark[2])],
           insert_covariance(e.covariance, landmark_prediction_jacobian,
                             self_covariance, next_index + 1))

RECURSIVE add_each(_, _, _, _)
add_each(e, opts, odemetry, new_landmarks) ==
    IF new_landmarks = <<>> THEN e
    ELSE add_each(add_landmark(e, opts, odemetry, Head(new_landmarks)),
                  opts, odemetry, Tail(new_landmarks))

\* EKF.__add_landmarks: one resize, then the landmarks in order.
add_landmarks(e, opts, odemetry, new_landmarks) ==
    add_each(resize(e, ekf_index(Len(e.landmark_types)) + 2 * Len(new_landmarks)),
             opts, odemetry, new_landmarks)

\* Mutant of new_of: an observed landmark equal to a later one is left out.
RECURSIVE new_of_distinct(_, _)
new_of_distinct(observed_landmarks, associated) ==
    IF observed_landmarks = <<>> THEN <<>>
    ELSE (IF Head(associated) = 0 /\ ~InSeq(Head(observed_landmarks), Tail(observed_landmarks))
            THEN <<Head(observed_landmarks)>> ELSE <<>>)
         \o new_of_distinct(Tail(observed_landmarks), Tail(associated))

\* new_landmarks of EKF.__associate_landmarks: the observed landmarks that
\* were not associated, in order.
RECURSIVE new_of(_, _)
new_of(observed_landmarks, associated) ==
    IF observed_landmarks = <<>> THEN <<>>
    ELSE (IF Head(associated) = 0 THEN <<Head(observed_landmarks)>> ELSE <<>>)
         \o new_of(Tail(observed_landmarks), Tail(associated))

\* EKF.update, lines 52-54: the pose is moved and its covariance updated.
move_belief(e, opts, delta_theta, odemetry) ==
    LET p == pos_after_move(e.system_state, delta_theta, odemetry)
    IN Ekf(e.landmark_types, e.landmark_counts,
           Held([i \in 1..Len(e.system_state) |-> IF i <= 3 THEN p[i] ELSE e.system_state[i]]),
           update_position_covariance(e.covariance, opts, p[3][1], delta_theta, odemetry))

\* EKF.update, lines 56-62, for the belief moved and the associations found:
\* the object afterwards, and whether LinAlgError left the method.
finish_update(moved, opts, odemetry, observed_landmarks, associated) ==
    IF \E i \in 1..Len(observed_landmarks) : associated[i] = -1
    THEN [ekf |-> moved, associated |-> associated, raised |-> TRUE]
    ELSE [ekf |-> add_landmarks(
                      update_system_state(moved, opts, observed_landmarks, associated),
                      opts, odemetry, new_of(observed_landmarks, associated)),
          associated |-> associated, raised |-> FALSE]

\* EKF.update
update(e, opts, delta_theta, odemetry, observed_landmarks) ==
    LET moved == move_belief(e, opts, delta_theta, odemetry)
    IN finish_update(moved, opts, odemetry, observed_landmarks,
                     associate_landmarks_ekf(moved, opts, observed_landmarks))

\* The roots an update takes, of the squared distances from the moved pose to
\* the landmarks it compares and to those it sees, are rational, and no
\* compared landmark is where the pose is.
ExactRoots(moved, observed_landmarks) ==
    \A i \in 1..Len(observed_landmarks) :
        /\ RIsSquare(SeenDist2(moved, observed_landmarks[i]))
        /\ Len(moved.landmark_types) > 0 =>
                LET k == closest_index(moved, observed_landmarks[i])
                IN ~landmark_dist(moved, k, observed_landmarks[i]).inf =>
                        RIsSquare(PoseDist2(moved, k)) /\ PoseDist2(moved, k) # RInt(0)

\* A landmark the Kalman gain corrects is observed where the state holds it.
ExactDeviations(moved, opts, observed_landmarks, associated) ==
    \A i \in 1..Len(observed_landmarks) :
        LET k == associated[i]
            times == Cardinality({j \in 1..i : associated[j] = k})
        IN (k > 0 /\ moved.landmark_counts[k] + times > opts.ekf_landmark_threshold) =>
                /\ landmark(moved, k)[1] = RInt(observed_landmarks[i][1])
                /\ landmark(moved, k)[2] = RInt(observed_landmarks[i][2])

MaxUpdates == 2

\* EKF(**options): the defaults with a rational ekf_bearing_noise, the same
\* without odometry noise and with the Kalman gain used from the first
\* re-observation, a coarse filter, the coarse filter with the Kalman gain
\* used from the third sighting, and a filter without uncertainty or bearing
\* noise.
EkfOptions ==
    { [ekf_initial_uncertainty |-> <<19, 20>>, ekf_odometry_noise |-> <<1, 20>>,
       ekf_range_noise |-> <<1, 100>>, ekf_bearing_noise |-> <<1, 50>>,
       ekf_innovation_lambda |-> RInt(1), ekf_landmark_threshold |-> 5],
      [ekf_initial_uncertainty |-> <<19, 20>>, ekf_odometry_noise |-> RInt(0),
       ekf_range_noise |-> <<1, 100>>, ekf_bearing_noise |-> <<1, 50>>,
       ekf_innovation_lambda |-> RInt(1), ekf_landmark_threshold |-> 0],
      [ekf_initial_uncertainty |-> RInt(1), ekf_odometry_noise |-> <<1, 4>>,
       ekf_range_noise |-> <<1, 2>>, ekf_bearing_noise |-> <<1, 2>>,
       ekf_innovation_lambda |-> RInt(1), ekf_landmark_threshold |-> 0],
      [ekf_initial_uncertainty |-> RInt(1), ekf_odometry_noise |-> <<1, 4>>,
       ekf_range_noise |-> <<1, 2>>, ekf_bearing_noise |-> <<1, 2>>,
       ekf_innovation_lambda |-> RInt(1), ekf_landmark_threshold |-> 2],
      [ekf_initial_uncertainty |-> RInt(0), ekf_odometry_noise |-> RInt(0),
       ekf_range_noise |-> <<1, 100>>, ekf_bearing_noise |-> RInt(0),
       ekf_innovation_lambda |-> RInt(1), ekf_landmark_threshold |-> 5] }

\* The controls of an update: delta_theta in quarter turns, odemetry.
EkfTurns == {0, 1}
EkfOdometry == {0, 1, 2}

\* The observed landmarks of an update, [(x, y, type), ...].
EkfObserved ==
    { <<>>,
      << <<2, 0, "statue">> >>,
      << <<3, 0, "statue">> >>,
      << <<2, 0, "fountain">> >>,
      << <<1, 2, "statue">> >>,
      << <<2, 0, "statue">>, <<2, 0, "statue">> >>,
      << <<0, 2, "fountain">>, <<2, 0, "statue">> >>,
      << <<0, 2, "statue">>, <<2, 0, "statue">> >> }

\* EKF.__init__: the object built.
NewEkf(opts) ==
    Ekf(<<>>, <<>>, <<RInt(0), RInt(0), RInt(0)>>, Eye(3, opts.ekf_initial_uncertainty))

\* EKF.__init__
InitEKF ==
    /\ ekf_options \in EkfOptions
    /\ landmark_types = NewEkf(ekf_options).landmark_types
    /\ landmark_counts = NewEkf(ekf_options).landmark_counts
    /\ system_state = NewEkf(ekf_options).system_state
    /\ covariance = NewEkf(ekf_options).covariance
    /\ ekf_calls = <<>>
    /\ scale = 5 /\ max_dist = 100 /\ map = EmptyMap /\ calls = <<>>
    /\ KeyIdle /\ SerIdle /\ SlamIdle /\ LxIdle /\ StatusIdle /\ ExpIdle

\* EKF.update(delta_theta, odemetry, observed_landmarks)
Update ==
    /\ Len(ekf_calls) < MaxUpdates
    /\ \E delta_theta \in EkfTurns, odemetry \in EkfOdometry, observed_landmarks \in EkfObserved :
        /\ delta_theta = 0 \/ ekf_options.ekf_odometry_noise = RInt(0)
        /\ \E moved \in {move_belief(Ekf(landmark_types, landmark_counts, system_state, covariance),
                                     ekf_options, delta_theta, odemetry)} :
            /\ ExactRoots(moved, observed_landmarks)
            /\ \E associated \in {associate_landmarks_ekf(moved, ekf_options, observed_landmarks)} :
                /\ ExactDeviations(moved, ekf_options, observed_landmarks, associated)
                /\ \E after \in {finish_update(moved, ekf_options, odemetry,
                                                observed_landmarks, associated)} :
                    /\ landmark_types' = after.ekf.landmark_types
                    /\ landmark_counts' = after.ekf.landmark_counts
                    /\ system_state' = after.ekf.system_state
                    /\ covariance' = after.ekf.covariance
                    /\ ekf_calls' = Append(ekf_calls,
                                           [delta_theta |-> delta_theta, odemetry |-> odemetry,
                                            observed_landmarks |-> observed_landmarks,
                                            associated |-> after.associated,
                                            raised |-> after.raised])
    /\ UNCHANGED <<ekf_options, mapVars, keyVars, serVars, slamVars, lxVars, statusVars, expVars>>

NextEKF == Update

SpecEKF == InitEKF /\ [][NextEKF]_vars

----------------------------------------------------------------------------
(* The EKF as the unit tests build and drive it (ekf_unittests.py) *)

\* The value of the parameter name of EKF.__init__ under the keyword
\* arguments kwargs: the argument when the keyword is that name, else the
\* default.
Keyword(kwargs, name, default) ==
    IF name \in DOMAIN kwargs THEN kwargs[name] ELSE default

\* EKF.__init__(**kwargs): the options the object holds.  A keyword that is
\* no parameter is taken by **kwargs and not used.  ekf_bearing_noise
\* defaults to radians(1), held here as 1/50.
EKF_init(kwargs) ==
    [ekf_initial_uncertainty |-> Keyword(kwargs, "ekf_initial_uncertainty", <<19, 20>>),
     ekf_odometry_noise |-> Keyword(kwargs, "ekf_odometry_noise", <<1, 20>>),
     ekf_range_noise |-> Keyword(kwargs, "ekf_range_noise", <<1, 100>>),
     ekf_bearing_noise |-> Keyword(kwargs, "ekf_bearing_noise", <<1, 50>>),
     ekf_innovation_lambda |-> Keyword(kwargs, "ekf_innovation_lambda", RInt(1)),
     ekf_landmark_threshold |-> Keyword(kwargs, "ekf_landmark_threshold", 5)]

\* setUp of ekf_unittests.py: EKF(landmark_threshold=0).
TestKeywords == [landmark_threshold |-> 0]

\* The keyword arguments of the filters driven: those of setUp, none, and the
\* threshold given under the name of the parameter.
KeywordSets == {TestKeywords, <<>>, [ekf_landmark_threshold |-> 0],
                [ekf_landmark_threshold |-> 1]}

\* Bound: EKF.update calls per behaviour of a test.
MaxTestUpdates == 3

\* The controls and the landmarks of the updates of ekf_unittests.py.
TestOdometry == {0, 5}
TestObserved ==
    { <<>>,
      << <<20, 0, "statue">> >>,
      << <<19, 0, "statue">> >>,
      << <<0, 20, "fountain">> >> }

InitEKFTest ==
    /\ \E kwargs \in KeywordSets : ekf_options = EKF_init(kwargs)
    /\ landmark_types = NewEkf(ekf_options).landmark_types
    /\ landmark_counts = NewEkf(ekf_options).landmark_counts
    /\ system_state = NewEkf(ekf_options).system_state
    /\ covariance = NewEkf(ekf_options).covariance
    /\ ekf_calls = <<>>
    /\ scale = 5 /\ max_dist = 100 /\ map = EmptyMap /\ calls = <<>>
    /\ KeyIdle /\ SerIdle /\ SlamIdle /\ LxIdle /\ StatusIdle /\ ExpIdle

\* EKF.update(radians(0), odemetry, observed_landmarks)
TestUpdate ==
    /\ Len(ekf_calls) < MaxTestUpdates
    /\ \E odemetry \in TestOdometry, observed_landmarks \in TestObserved :
        \E moved \in {move_belief(Ekf(landmark_types, landmark_counts, system_state, covariance),
                                  ekf_options, 0, odemetry)} :
            /\ ExactRoots(moved, observed_landmarks)
            /\ \E associated \in {associate_landmarks_ekf(moved, ekf_options, observed_landmarks)} :
                /\ ExactDeviations(moved, ekf_options, observed_landmarks, associated)
                /\ \E after \in {finish_update(moved, ekf_options, odemetry,
                                                observed_landmarks, associated)} :
                    /\ landmark_types' = after.ekf.landmark_types
                    /\ landmark_counts' = after.ekf.landmark_counts
                    /\ system_state' = after.ekf.system_state
                    /\ covariance' = after.ekf.covariance
                    /\ ekf_calls' = Append(ekf_calls,
                                           [delta_theta |-> 0, odemetry |-> odemetry,
                                            observed_landmarks |-> observed_landmarks,
                                            associated |-> after.associated,
                                            raised |-> after.raised])
    /\ UNCHANGED <<ekf_options, mapVars, keyVars, serVars, slamVars, lxVars, statusVars, expVars>>

NextEKFTest == TestUpdate

SpecEKFTest == InitEKFTest /\ [][NextEKFTest]_vars

\* The matrix of whole numbers M, in twentieths.
Twentieths(M) ==
    Held([i \in 1..Len(M) |-> Held([j \in 1..Len(M[i]) |-> Rat(M[i][j], 20)])])

\* setUp of ekf_unittests.py: the keyword landmark_threshold is no parameter
\* of EKF.__init__, so the filter is built with the defaults.
TestOptions ==
    [ekf_initial_uncertainty |-> <<19, 20>>, ekf_odometry_noise |-> <<1, 20>>,
     ekf_range_noise |-> <<1, 100>>, ekf_bearing_noise |-> <<1, 50>>,
     ekf_innovation_lambda |-> RInt(1), ekf_landmark_threshold |-> 5]

\* test_init and test_noop_move of ekf_unittests.py
TestNoopMove ==
    LET e == update(NewEkf(TestOptions), TestOptions, 0, 0, <<>>).ekf
    IN /\ NewEkf(TestOptions).covariance = Twentieths(<< <<19, 0, 0>>, <<0, 19, 0>>, <<0, 0, 19>> >>)
       /\ e.system_state = <<RInt(0), RInt(0), RInt(0)>>
       /\ e.covariance = Twentieths(<< <<19, 0, 0>>, <<0, 19, 0>>, <<0, 0, 19>> >>)

\* test_add_two_landmarks of ekf_unittests.py
TestAddTwoLandmarks ==
    LET e1 == update(NewEkf(TestOptions), TestOptions, 0, 0, << <<20, 0, "statue">> >>).ekf
        e2 == update(e1, TestOptions, 0, 0, << <<0, 20, "fountain">> >>).ekf
    IN /\ e1.system_state = <<RInt(0), RInt(0), RInt(0), RInt(20), RInt(0)>>
       /\ e1.covariance = Twentieths(<< <<19, 0, 0, 19, 0>>,
                                        <<0, 19, 0, 0, 19>>,
                                        <<0, 0, 19, 0, 0>>,
                                        <<19, 0, 0, 23, 0>>,
                                        <<0, 19, 0, 0, 19>> >>)
       /\ e2.system_state = <<RInt(0), RInt(0), RInt(0), RInt(20), RInt(0), RInt(0), RInt(20)>>
       /\ e2.covariance = Twentieths(<< <<19, 0, 0, 19, 0, 19, 0>>,
                                        <<0, 19, 0, 0, 19, 0, 19>>,
                                        <<0, 0, 19, 0, 0, 0, 0>>,
                                        <<19, 0, 0, 23, 0, 19, 0>>,
                                        <<0, 19, 0, 0, 19, 0, 19>>,
                                        <<19, 0, 0, 19, 0, 23, 0>>,
                                        <<0, 19, 0, 0, 19, 0, 19>> >>)

\* test_linear_move_and_observe of ekf_unittests.py: the covariance after
\* the move of 5 with the statue seen at (19, 0).
TestLinearMove ==
    LET e1 == update(NewEkf(TestOptions), TestOptions, 0, 0, << <<20, 0, "statue">> >>).ekf
        e2 == update(e1, TestOptions, 0, 5, << <<19, 0, "statue">> >>).ekf
    IN e2.covariance = Twentieths(<< <<519, 0, -95, 19, 0>>,
                                     <<0, 19, 0, 0, 19>>,
                                     <<-95, 0, 19, 0, 0>>,
                                     <<19, 0, 0, 23, 0>>,
                                     <<0, 19, 0, 0, 19>> >>)

Loc(s, m, h) == [stepped_count |-> s, missed_count |-> m, hit_count |-> h]

Call(x, y, theta, observations) ==
    [x |-> x, y |-> y, theta |-> theta, observations |-> observations]

TestFlat ==
    (scale = 5 /\ max_dist = 100 /\ calls = <<Call(0, 0, East, <<Obs(East, 10, 1)>>)>>)
    => map.loc = (<<0, 0>> :> Loc(1, 0, 0)) @@ (<<5, 0>> :> Loc(0, 1, 0))
                 @@ (<<10, 0>> :> Loc(0, 0, 1))

TestAngled ==
    (scale = 5 /\ max_dist = 100
     /\ calls = <<Call(0, 0, East, <<Obs(NorthEast, 10, 2)>>)>>)
    => map.loc = (<<0, 0>> :> Loc(1, 0, 0)) @@ (<<5, 5>> :> Loc(0, 1, 0))
                 @@ (<<10, 10>> :> Loc(0, 0, 1))

TestLong ==
    (scale = 5 /\ max_dist = 8 /\ calls = <<Call(0, 0, East, <<Obs(East, 10, 1)>>)>>)
    => map.loc = (<<0, 0>> :> Loc(1, 0, 0)) @@ (<<5, 0>> :> Loc(0, 1, 0))

TestCrossing ==
    (scale = 5 /\ max_dist = 100
     /\ calls = <<Call(0, 0, East, <<Obs(East, 10, 1)>>),
                  Call(5, -5, North, <<Obs(East, 10, 1)>>)>>)
    => map.loc = (<<0, 0>> :> Loc(1, 0, 0)) @@ (<<5, 0>> :> Loc(0, 2, 0))
                 @@ (<<10, 0>> :> Loc(0, 0, 1)) @@ (<<5, -5>> :> Loc(1, 0, 0))
                 @@ (<<5, 5>> :> Loc(0, 0, 1))

\* test_rep: the text of the default map after record_observations(0, 0, 0, []).
TestRep ==
    (scale = 5 /\ max_dist = 100 /\ calls = <<Call(0, 0, East, <<>>)>> /\ text # NoText)
    => text = VersionLine \o <<"\n">> \o ConfigHeader \o <<"\n", "5", ",", "1", "0", "0", "\n">>
              \o CellHeader \o <<"\n", "0", ",", "0", ",", "1", ",", "0", ",", "0">>

----------------------------------------------------------------------------
(* landmark_extraction.py.  An angle is a whole number of quarter turns, so
   that its cosine and sine are CosQ and SinQ; a range is an integer. *)

\* math.tau, in quarter turns.
tau == 4

\* The first while loop of normalize_angle.
RECURSIVE raised_angle(_)
raised_angle(ret_angle) ==
    IF ret_angle < 0 THEN raised_angle(ret_angle + tau) ELSE ret_angle

\* The second while loop of normalize_angle.
RECURSIVE lowered_angle(_)
lowered_angle(ret_angle) ==
    IF ret_angle >= tau THEN lowered_angle(ret_angle - tau) ELSE ret_angle

\* normalize_angle
normalize_angle(angle) == lowered_angle(raised_angle(angle))

\* min(options, key = abs): the first of the options of least magnitude.
min_by_abs(options) ==
    options[CHOOSE i \in DOMAIN options :
                /\ \A j \in DOMAIN options : Abs(options[i]) <= Abs(options[j])
                /\ \A j \in 1..(i - 1) : Abs(options[j]) > Abs(options[i])]

\* normalized_angle_difference: first_norm and second_norm are computed and
\* not used; the difference is taken of the arguments as given.
normalized_angle_difference(first, second) ==
    LET first_norm == normalize_angle(first)
        second_norm == normalize_angle(second)
        diff == second - first
    IN min_by_abs(<<diff, diff + tau, diff - tau>>)

\* math.isclose on whole numbers of quarter turns: they are close when equal.
isclose(a, b) == a = b

\* wrap_around of extract_spike; a reading is <<d_theta, distance>>.
wrap_around(raw_data) ==
    /\ Len(raw_data) > 1
    /\ isclose(normalized_angle_difference(raw_data[1][1], raw_data[2][1]),
               normalized_angle_difference(raw_data[Len(raw_data)][1], raw_data[1][1]))

\* Mutant of valid_ranges: only the range of the reading itself is tested.
valid_ranges_own(A, B, C) == ~(B < 0)

\* Line 86 of extract_spike: no range is negative.
valid_ranges(A, B, C) == ~(A < 0 \/ B < 0 \/ C < 0)

\* Mutant of spike_depth: the depth below the previous reading, twice.
spike_depth_before(A, B, C) == (A - B) + (A - B)

\* Line 90 of extract_spike: the depth of B below its two neighbours.
spike_depth(A, B, C) == (A - B) + (C - B)

\* The body of the for loop of extract_spike for index i, counted from 0: the
\* landmarks it appends.
spike_at(p, raw_data, spike_threshold, wraps, i) ==
    LET n == Len(raw_data)
        d_theta == raw_data[i + 1][1]
        B == raw_data[i + 1][2]
        A == raw_data[((i - 1) % n) + 1][2]
        C == raw_data[((i + 1) % n) + 1][2]
    IN IF ~wraps /\ (i = 0 \/ i = n - 1) THEN <<>>
       ELSE IF ~valid_ranges(A, B, C) THEN <<>>
       ELSE IF spike_depth(A, B, C) >= spike_threshold
         THEN << <<p[1] + B * CosQ(p[3] + d_theta), p[2] + B * SinQ(p[3] + d_theta)>> >>
       ELSE <<>>

\* The for loop of extract_spike from index i on.
RECURSIVE spikes_from(_, _, _, _, _)
spikes_from(p, raw_data, spike_threshold, wraps, i) ==
    IF i >= Len(raw_data) THEN <<>>
    ELSE spike_at(p, raw_data, spike_threshold, wraps, i)
         \o spikes_from(p, raw_data, spike_threshold, wraps, i + 1)

\* landmark_extraction.extract_spike(pos, raw_data, spike_threshold)
lx_extract_spike(p, raw_data, spike_threshold) ==
    spikes_from(p, raw_data, spike_threshold, wrap_around(raw_data), 0)

\* raw_data in the opposite order.
reversed(raw_data) == [i \in 1..Len(raw_data) |-> raw_data[Len(raw_data) + 1 - i]]

----------------------------------------------------------------------------
(* Calls of normalize_angle and normalized_angle_difference *)

\* Bound: the angles given are from -MaxAngle to MaxAngle quarter turns.
MaxAngle == 12

Angles == (-MaxAngle)..MaxAngle

\* Every variable a behaviour of landmark_extraction.py does not use.
ExtractionIdle ==
    /\ scale = 5 /\ max_dist = 100 /\ map = EmptyMap /\ calls = <<>>
    /\ KeyIdle /\ SerIdle /\ SlamIdle /\ EkfIdle /\ StatusIdle /\ ExpIdle

InitAngle ==
    /\ lx_input \in {[first |-> a, second |-> b] : a \in Angles, b \in Angles}
    /\ lx_output = <<>>
    /\ ExtractionIdle /\ StatusIdle /\ ExpIdle

\* normalize_angle(first)
NormalizeAngle ==
    /\ "normalize_angle" \notin DOMAIN lx_output
    /\ lx_output' = lx_output @@ ("normalize_angle" :> normalize_angle(lx_input.first))
    /\ UNCHANGED <<lx_input, mapVars, keyVars, serVars, slamVars, ekfVars, statusVars, expVars>>

\* normalized_angle_difference(first, second)
NormalizedAngleDifference ==
    /\ "normalized_angle_difference" \notin DOMAIN lx_output
    /\ lx_output' = lx_output @@ ("normalized_angle_difference" :>
                        normalized_angle_difference(lx_input.first, lx_input.second))
    /\ UNCHANGED <<lx_input, mapVars, keyVars, serVars, slamVars, ekfVars, statusVars, expVars>>

NextAngle == NormalizeAngle \/ NormalizedAngleDifference

SpecAngle == InitAngle /\ [][NextAngle]_vars

----------------------------------------------------------------------------
(* Calls of extract_spike *)

\* The d_theta of the scans given, in quarter turns: no reading, one, two in
\* the same or in different directions, sweeps that do not close the circle,
\* sweeps that do, and a sweep with uneven steps.
ScanAngles ==
    {<<>>, <<0>>, <<0, 0>>, <<0, 1>>, <<-2, 0>>, <<0, 4>>,
     <<0, 1, 2>>, <<0, 1, 3>>, <<1, 0, -1>>,
     <<-2, -1, 0, 1>>, <<0, 1, 2, -1>>}

\* The ranges of the readings; a negative range is an invalid reading.
ScanRanges == {-5, 0, 5, 10}

\* The scans: every assignment of ranges to the directions.
Scans ==
    UNION {{[i \in 1..Len(angles) |-> <<angles[i], ranges[i]>>] :
               ranges \in [1..Len(angles) -> ScanRanges]} : angles \in ScanAngles}

\* spike_threshold, 1 standing for the default 0.5 on whole ranges.
SpikeThresholds == {1, 5}

\* pos = (x, y, theta)
SpikePoses == {<<0, 0, 0>>, <<2, 5, 1>>}

InitSpike ==
    /\ lx_input \in {[pos |-> p, raw_data |-> Held(raw_data), spike_threshold |-> t] :
                        p \in SpikePoses, raw_data \in Scans, t \in SpikeThresholds}
    /\ lx_output = <<>>
    /\ ExtractionIdle /\ StatusIdle /\ ExpIdle

\* extract_spike(pos, raw_data, spike_threshold)
ExtractSpike ==
    /\ "extract_spike" \notin DOMAIN lx_output
    /\ lx_output' = lx_output @@ ("extract_spike" :>
                        lx_extract_spike(lx_input.pos, lx_input.raw_data,
                                         lx_input.spike_threshold))
    /\ UNCHANGED <<lx_input, mapVars, keyVars, serVars, slamVars, ekfVars, statusVars, expVars>>

\* extract_spike(pos, raw_data in the opposite order, spike_threshold)
ExtractSpikeReversed ==
    /\ "extract_spike_reversed" \notin DOMAIN lx_output
    /\ lx_output' = lx_output @@ ("extract_spike_reversed" :>
                        lx_extract_spike(lx_input.pos, Held(reversed(lx_input.raw_data)),
                                         lx_input.spike_threshold))
    /\ UNCHANGED <<lx_input, mapVars, keyVars, serVars, slamVars, ekfVars, statusVars, expVars>>

NextSpike == ExtractSpike \/ ExtractSpikeReversed

SpecSpike == InitSpike /\ [][NextSpike]_vars

----------------------------------------------------------------------------
(* explorer.py *)

\* SpaceStatus
UNKNOWN == "UNKNOWN"
PASSABLE == "PASSABLE"
BLOCKED == "BLOCKED"

\* Mutant of get_space_status: the hit count is compared before the stepped
\* count.
get_space_status_hit_first(opts, space) ==
    IF space.hit_count >= opts.hit_threshold THEN BLOCKED
    ELSE IF space.stepped_count >= opts.step_threshold THEN PASSABLE
    ELSE IF space.missed_count >= opts.miss_threshold THEN PASSABLE
    ELSE UNKNOWN

\* Explorer.get_space_status
get_space_status(opts, space) ==
    IF space.stepped_count >= opts.step_threshold THEN PASSABLE
    ELSE IF space.hit_count >= opts.hit_threshold THEN BLOCKED
    ELSE IF space.missed_count >= opts.miss_threshold THEN PASSABLE
    ELSE UNKNOWN

----------------------------------------------------------------------------
(* Calls of Explorer.get_space_status *)

\* The thresholds an explorer is built with: any integers pass the asserts
\* of Explorer.__init__; 1, 5 and 2 are the defaults.
Thresholds == {-1, 0, 1, 2, 5}

\* The counts a cell of the map holds.
Counts == {0, 1, 2, 5}

\* The maps read: the empty map, and the maps that hold the cell of the origin.
StatusMaps ==
    {EmptyMap} \cup
    {[keys |-> <<<<0, 0>>>>,
      loc |-> (<<0, 0>> :> [stepped_count |-> s, missed_count |-> m, hit_count |-> h])] :
         s \in Counts, m \in Counts, h \in Counts}

\* The points read: one in the cell of the origin, one in the next cell.
StatusPoints == {<<1, 2>>, <<5, 0>>}

InitStatus ==
    /\ \E st \in Thresholds, mt \in Thresholds, ht \in Thresholds :
       \E m \in StatusMaps, point \in StatusPoints :
           space_query = [opts |-> [step_threshold |-> st, miss_threshold |-> mt,
                                    hit_threshold |-> ht],
                          map |-> m, x |-> point[1], y |-> point[2]]
    /\ space_status = <<>>
    /\ scale = 5 /\ max_dist = 100
    /\ map = EmptyMap /\ calls = <<>>
    /\ KeyIdle /\ SerIdle /\ SlamIdle /\ EkfIdle /\ LxIdle /\ ExpIdle

\* self.get_space_status(collision_map.get_location(x, y)), as step, pathfind
\* and get_travel_status call it.
GetSpaceStatus ==
    /\ space_status = <<>>
    /\ \E space \in {get_location(space_query.map,
                                  get_key(scale, space_query.x, space_query.y, 1))} :
           space_status' = <<[space |-> space,
                              status |-> get_space_status(space_query.opts, space)]>>
    /\ UNCHANGED <<space_query, mapVars, keyVars, serVars, slamVars, ekfVars, lxVars, expVars>>

NextStatus == GetSpaceStatus

SpecStatus == InitStatus /\ [][NextStatus]_vars

----------------------------------------------------------------------------
(* sim_framework.py: the simulated robot an explorer drives.  Positions are
   integers and headings are quarter turns; World.resolution is even, so the
   clearance of the robot is an integer.  The two rays World.move_ent casts
   at collision_delta_theta = 1 radian on either side of the heading have
   irrational directions: they are cast with a lower and with an upper
   rational bound of cos 1 and sin 1, and the model is defined only where the
   two agree, which is where the ray of the code is determined. *)

\* inf, the reading of a ray that meets nothing within World.max_dist.
Infinity == 10000

\* Denominator of the bounds of cos 1 and sin 1.
TrigDen == 10000

\* cos 1 = 0.54030..., sin 1 = 0.84147...; TrigDen times a lower and an upper bound.
Cos1 == <<5403, 5404>>
Sin1 == <<8414, 8415>>

Least(S) == CHOOSE k \in S : \A j \in S : k <= j

Smaller(a, b) == IF a <= b THEN a ELSE b

Larger(a, b) == IF a >= b THEN a ELSE b

\* Wall.__init__: option is <<sign, axis>>.
Wall(position, option) == [threshold |-> position, option |-> option]

\* Wall.is_inside, of the point (xn / den, yn / den).
Wall_is_inside(wall, xn, yn, den) ==
    LET p == IF wall.option[2] = "x" THEN xn ELSE yn
    IN IF wall.option[1] = "-" THEN p <= wall.threshold * den
                                ELSE p >= wall.threshold * den

\* World.ray_cast from (x, y) in the direction (dir[1], dir[2]) / dir[3].
ray_cast_along(w, x, y, dir) ==
    LET inside(k) == \E i \in DOMAIN w.obstacles :
                        Wall_is_inside(w.obstacles[i],
                                       x * dir[3] + k * w.resolution * dir[1],
                                       y * dir[3] + k * w.resolution * dir[2],
                                       dir[3])
    IN Only({IF found = {} THEN Infinity ELSE w.resolution * Least(found) :
             found \in {{k \in 0..((w.max_dist - 1) \div w.resolution) : inside(k)}}})

\* World.ray_cast(x, y, theta), theta being q quarter turns.
ray_cast(w, x, y, q) == ray_cast_along(w, x, y, <<CosQ(q), SinQ(q), 1>>)

\* (cos, sin) of q quarter turns plus or minus (side = 1, -1) one radian,
\* over TrigDen, cos 1 and sin 1 being c1 / TrigDen and s1 / TrigDen.
Beside(q, side, c1, s1) ==
    <<CosQ(q) * c1 - side * SinQ(q) * s1, SinQ(q) * c1 + side * CosQ(q) * s1, TrigDen>>

\* World.ray_cast(x, y, theta + side * collision_delta_theta).
ray_cast_beside(w, x, y, q, side) ==
    Only({CASE far = near -> far :
          far \in {ray_cast_along(w, x, y, Beside(q, side, Cos1[1], Sin1[1]))},
          near \in {ray_cast_along(w, x, y, Beside(q, side, Cos1[2], Sin1[2]))}})

\* CircleBot.is_inside, of a point at distance dist from the centre.
CircleBot_is_inside(radius, dist) == dist <= radius

\* The clearance World.move_ent measures: resolution steps from the centre
\* until outside the entity, then half a step.
clearance_of(w) ==
    LET out == Least({k \in 0..(w.radius \div w.resolution + 1) :
                         ~CircleBot_is_inside(w.radius, k * w.resolution)})
    IN out * w.resolution + w.resolution \div 2

\* World.move_ent: the distance really travelled from (x, y) towards theta.
move_ent(w, x, y, distance, q) ==
    LET collision_distance ==
            Smaller(ray_cast_beside(w, x, y, q, -1),
                    Smaller(ray_cast(w, x, y, q), ray_cast_beside(w, x, y, q, 1)))
        max_distance == Larger(collision_distance - clearance_of(w), 0)
    IN Smaller(max_distance, distance)

\* SimBotControl.move(theta, distance): the robot afterwards and the odometry.
move(w, b, theta, distance) ==
    LET new_theta == b[3] + theta
    IN Only({[bot |-> <<b[1] + real_distance * CosQ(new_theta),
                        b[2] + real_distance * SinQ(new_theta),
                        new_theta>>,
              odemetry |-> real_distance] :
             real_distance \in {move_ent(w, b[1], b[2], distance, new_theta)}})

\* SimBotControl.get_distance_reading: a ray every w.arc quarter turns from
\* -180 degrees, as (delta_theta, distance) observations.
get_distance_reading(w, b) ==
    Held([i \in 1..(4 \div w.arc) |->
        LET k == (i - 1) * w.arc - 2
        IN Obs(<<CosQ(k), SinQ(k)>>, ray_cast(w, b[1], b[2], b[3] + k), 1)])

----------------------------------------------------------------------------
(* The slam an explorer holds.  Explorer.__init__ requires the accessors
   get_estimated_position, get_collision_map and move_observe_and_update;
   Slam of slam.py has no get_collision_map, so the orchestrator is taken from
   section 4.4 of the specification: move, read, extract, update the EKF,
   record the observations from the updated pose. *)

\* The scan as extract_spike takes it: (d_theta, distance) with d_theta in
\* quarter turns, as SimBotControl.get_distance_reading spaces the readings.
raw_data_of(w, observations) ==
    Held([i \in DOMAIN observations |->
             <<(i - 1) * w.arc - 2, observations[i].distance.n>>])

\* Counts are kept up to CountCap: an explorer compares a count only with its
\* thresholds, none of which exceeds CountCap.
CountCap == 5

Saturated(m) ==
    [m EXCEPT !.loc = [key \in DOMAIN m.loc |->
        [stepped_count |-> Smaller(m.loc[key].stepped_count, CountCap),
         missed_count |-> Smaller(m.loc[key].missed_count, CountCap),
         hit_count |-> Smaller(m.loc[key].hit_count, CountCap)]]]

\* Step 4 of move_observe_and_update (section 4.4) for a scan that yields no
\* landmark: EKF.update then only moves the belief.
updated_belief(w, belief, theta, odemetry, observations) ==
    LET after == CASE lx_extract_spike(belief, raw_data_of(w, observations),
                                       w.spike_threshold) = <<>> ->
                     pos_after_move(<<RInt(belief[1]), RInt(belief[2]), RInt(belief[3])>>,
                                    theta, odemetry)
    IN <<after[1][1], after[2][1], after[3][1]>>

----------------------------------------------------------------------------
(* explorer.py: the planner *)

\* The point (cx, cy) passes the half-plane tests of the four edges of the
\* rectangle get_travel_status builds around the move from (x1, y1) to
\* (x2, y2): width size, reaching size / 2 behind the start and beyond the
\* end.  With d = (x2 - x1, y2 - y1) and v = (cx - x1, cy - y1) the tests are
\* |v x d| <= (size / 2) |d| and -(size / 2) |d| <= v . d <= |d|^2 + (size / 2) |d|.
InRectangle(cx, cy, x1, y1, x2, y2, size) ==
    LET dx == x2 - x1
        dy == y2 - y1
        len2 == dx * dx + dy * dy
        vx == cx - x1
        vy == cy - y1
        along == vx * dx + vy * dy
        across == vx * dy - vy * dx
        reach == size * size * len2
    IN IF len2 = 0
         THEN 2 * Abs(vx) <= size /\ 2 * Abs(vy) <= size
       ELSE /\ 4 * across * across <= reach
            /\ (along >= 0 \/ 4 * along * along <= reach)
            /\ (along <= len2 \/ 4 * (along - len2) * (along - len2) <= reach)

\* CollisionMap.get_locations_within_rectangle (specification section 4.2),
\* for the rectangle of get_travel_status: the keys whose centres lie inside
\* it that the map holds, and the number of keys whose centres lie inside it.
get_locations_within_rectangle(m, sc, x1, y1, x2, y2, size) ==
    LET low_x == Smaller(x1, x2) - size
        high_x == Larger(x1, x2) + size
        low_y == Smaller(y1, y2) - size
        high_y == Larger(y1, y2) + size
        inside == {key \in {<<i * sc, j * sc>> : i \in (low_x \div sc)..(high_x \div sc + 1),
                                              j \in (low_y \div sc)..(high_y \div sc + 1)} :
                      InRectangle(key[1], key[2], x1, y1, x2, y2, size)}
    IN Only({[spaces |-> {key \in held : HasKey(m, key)}, area |-> Cardinality(held)] :
             held \in {inside}})

\* Explorer.get_travel_status
get_travel_status(m, sc, opts, x1, y1, x2, y2) ==
    Only({Only({IF BLOCKED \in statuses THEN BLOCKED
                ELSE IF Cardinality(found.spaces) < found.area \/ UNKNOWN \in statuses
                  THEN UNKNOWN
                ELSE PASSABLE :
                statuses \in {{get_space_status(opts, get_location(m, key)) :
                                  key \in found.spaces}}}) :
          found \in {get_locations_within_rectangle(m, sc, x1, y1, x2, y2, opts.size)}})

\* A path distance is <<a, b>>, standing for (a + b * sqrt(2)) * scale.
\* DistanceLess(d, e): d < e.
DistanceLess(d, e) ==
    LET a == d[1] - e[1]
        b == e[2] - d[2]
    IN IF a <= 0 /\ b >= 0 THEN a < 0 \/ b > 0
       ELSE IF a >= 0 /\ b <= 0 THEN FALSE
       ELSE IF a > 0 THEN a * a < 2 * b * b
       ELSE a * a > 2 * b * b

\* The order of the heap entries (path_distance, (x, y)).
HeapLess(p, q) ==
    \/ DistanceLess(p.dist, q.dist)
    \/ /\ p.dist = q.dist
       /\ \/ p.key[1] < q.key[1]
          \/ p.key[1] = q.key[1] /\ p.key[2] < q.key[2]

\* The for loop of pathfind over the neighbours of the popped entry: the
\* entries pushed.
pushed_from(m, sc, opts, top, closed_trail) ==
    LET neighbors == get_neighbor_keys(sc, top.key[1], top.key[2])
    IN {[dist |-> IF neighbors[i][1] # top.key[1] /\ neighbors[i][2] # top.key[2]
                    THEN <<top.dist[1], top.dist[2] + 1>>
                    ELSE <<top.dist[1] + 1, top.dist[2]>>,
         key |-> neighbors[i]] :
           i \in {j \in DOMAIN neighbors :
                     /\ get_travel_status(m, sc, opts, top.key[1], top.key[2],
                                          neighbors[j][1], neighbors[j][2]) # BLOCKED
                     /\ neighbors[j] \notin DOMAIN closed_trail}}

\* The while loop of pathfind: the target found (<<>> for None) and the trail.
\* Each set with one element binds a value the loop computes once.
RECURSIVE search(_, _, _, _, _)
search(m, sc, opts, open_heap, closed_trail) ==
    IF open_heap = {} THEN [target |-> <<>>, closed_trail |-> closed_trail]
    ELSE Only({
        IF get_space_status(opts, get_location(m, top.key)) = BLOCKED
          THEN Only({search(m, sc, opts, rest, closed_trail) : rest \in {open_heap \ {top}}})
        ELSE IF get_space_status(opts, get_location(m, top.key)) = UNKNOWN
          THEN [target |-> top.key, closed_trail |-> closed_trail]
        ELSE Only({Only({search(m, sc, opts, rest, trail) :
                            rest \in {(open_heap \ {top}) \cup pushed},
                            trail \in {[key \in {p.key : p \in pushed} |-> top.key]
                                           @@ closed_trail}}) :
                      pushed \in {pushed_from(m, sc, opts, top, closed_trail)}}) :
        top \in {p \in open_heap : \A q \in open_heap : p = q \/ HeapLess(p, q)}})

\* Mutant of trail_back: the path ends with the start.
RECURSIVE trail_back_to_start(_, _)
trail_back_to_start(closed_trail, current_step) ==
    IF closed_trail[current_step] = <<>> THEN <<current_step>>
    ELSE <<current_step>> \o trail_back_to_start(closed_trail, closed_trail[current_step])

\* The path from the target back to, and without, the start.
RECURSIVE trail_back(_, _)
trail_back(closed_trail, current_step) ==
    IF closed_trail[current_step] = <<>> THEN <<>>
    ELSE <<current_step>> \o trail_back(closed_trail, closed_trail[current_step])

\* Explorer.pathfind, from the estimated position (x, y).
pathfind(m, sc, opts, x, y) ==
    Only({Only({IF found.target = <<>> THEN <<>>
                ELSE trail_back(found.closed_trail, found.target) :
                found \in {search(m, sc, opts,
                                  {[dist |-> <<0, 0>>, key |-> current_location]},
                                  (current_location :> <<>>))}}) :
          current_location \in {get_key(sc, x, y, 1)}})

\* atan2(dy, dx) in quarter turns, for a direction along an axis.
atan2(dy, dx) ==
    CASE dy = 0 /\ dx >= 0 -> 0
      [] dx = 0 /\ dy > 0 -> 1
      [] dy = 0 /\ dx < 0 -> 2
      [] dx = 0 /\ dy < 0 -> -1

\* Mutant of recompute_path: the travel checked is the one to the goal, the
\* farthest cell of the path.
recompute_path_to_goal(m, sc, opts, x, y, path) ==
    \/ Len(path) = 0
    \/ get_space_status(opts, get_location(m, get_key(sc, path[1][1], path[1][2], 1)))
           # UNKNOWN
    \/ get_travel_status(m, sc, opts, x, y, path[1][1], path[1][2]) = BLOCKED

\* Lines 48-55 of Explorer.step: whether the path is computed again.
recompute_path(m, sc, opts, x, y, path) ==
    \/ Len(path) = 0
    \/ get_space_status(opts, get_location(m, get_key(sc, path[1][1], path[1][2], 1)))
           # UNKNOWN
    \/ get_travel_status(m, sc, opts, x, y, path[Len(path)][1], path[Len(path)][2])
           = BLOCKED

\* Mutant of need_to_observe: the present cell never needs observing.
need_to_observe_never(m, sc, opts, x, y) == FALSE

\* Line 61 of Explorer.step.
need_to_observe(m, sc, opts, x, y) ==
    get_space_status(opts, get_location(m, get_key(sc, x, y, 1))) = UNKNOWN

\* Lines 82-89 of Explorer.step: the controls that take the next step of the
\* path from (x, y, theta), as <<theta_controls, target_distance>>.
controls(x, y, theta, next_step) ==
    LET dx == next_step[1] - x
        dy == next_step[2] - y
    IN <<normalized_angle_difference(theta, atan2(dy, dx)), Abs(dx) + Abs(dy)>>

\* Mutant of returns_early: step never returns early.
returns_early_never(explored) == FALSE

\* Lines 41-43 of Explorer.step: return at once when everything is explored.
returns_early(explored) == explored

----------------------------------------------------------------------------
(* An explorer driving the simulated robot *)

\* The four walls of an arena: x <= x_min, x >= x_max, y <= y_min, y >= y_max.
Walls(x_min, x_max, y_min, y_max) ==
    <<Wall(x_min, <<"-", "x">>), Wall(x_max, <<"+", "x">>),
      Wall(y_min, <<"-", "y">>), Wall(y_max, <<"+", "y">>)>>

\* A simulation: World(resolution = 2, max_dist = 40) holding four walls, a
\* CircleBot of the given radius at the origin, SimBotControl(arc_degrees = 90)
\* and a slam built with SPIKE_THRESHOLD = 400 as tk_sim.py builds it.
Simulation(x_min, x_max, y_min, y_max, radius) ==
    [obstacles |-> Walls(x_min, x_max, y_min, y_max),
     resolution |-> 2, max_dist |-> 40, radius |-> radius, arc |-> 1,
     spike_threshold |-> 400]

\* Explorer(slam, size) with the default thresholds.
ExplorerOptions(size) ==
    [size |-> size, step_threshold |-> 1, miss_threshold |-> 5, hit_threshold |-> 2]

\* The runs checked, as <<x_min, x_max, y_min, y_max, radius, size>>: in each
\* the robot only ever moves along an axis between integer points, and every
\* wall is within World.max_dist of it.
ExplorerRuns ==
    {<<-3, 3, -6, 3, 2, 9>>,
     <<-3, 3, -6, 4, 1, 9>>,
     <<-3, 4, -4, 3, 2, 9>>,
     <<-3, 8, -4, 4, 1, 9>>,
     <<-3, 8, -4, 6, 1, 9>>,
     <<-4, 6, -3, 4, 1, 9>>,
     <<-4, 8, -3, 6, 2, 9>>,
     <<-4, 8, -6, 3, 2, 9>>,
     <<-4, 8, -6, 4, 1, 9>>,
     <<-6, 3, -4, 4, 1, 3>>,
     <<-6, 3, -6, 4, 1, 3>>,
     <<-6, 4, -3, 4, 1, 9>>,
     <<-6, 4, -6, 4, 1, 3>>,
     <<-6, 6, -3, 3, 4, 9>>,
     <<-6, 6, -6, 4, 1, 3>>,
     <<-6, 8, -6, 6, 1, 3>>,
     <<-8, 4, -4, 6, 4, 9>>,
     <<-9, 4, -3, 4, 4, 9>>}

InitExplorer ==
    /\ \E run \in ExplorerRuns :
        /\ world = Simulation(run[1], run[2], run[3], run[4], run[5])
        /\ explorer_options = ExplorerOptions(run[6])
    /\ scale = 5 /\ max_dist = 100
    /\ map = EmptyMap /\ calls = <<>>
    /\ bot = <<0, 0, 0>>
    /\ current_path = <<>> /\ fully_explored = FALSE /\ step_trace = <<>>
    /\ odd_step = FALSE
    /\ KeyIdle /\ SerIdle /\ SlamIdle /\ EkfIdle /\ LxIdle /\ StatusIdle

\* slam.move_observe_and_update(theta, distance) as Explorer.step calls it,
\* the path left being path and called what the step called before.
MoveObserveAndUpdate(path, called, theta, distance) ==
    \E moved \in {move(world, bot, theta, distance)} :
    \E observations \in {get_distance_reading(world, moved.bot)} :
    \E after \in {updated_belief(world, pos, theta, moved.odemetry, observations)} :
    \E recorded \in {record_observations(map, scale, max_dist, after[1], after[2],
                                          <<CosQ(after[3]), SinQ(after[3])>>,
                                          observations)} :
        /\ bot' = moved.bot
        /\ pos' = after
        /\ map' = Saturated(recorded)
        /\ current_path' = path
        /\ fully_explored' = fully_explored
        /\ step_trace' = Append(called, <<"move_observe_and_update", theta, distance>>)

\* One call of Explorer.step.  step_trace lists what the call called.
Step ==
    /\ odd_step' = ~odd_step
    /\ IF returns_early(fully_explored)
         THEN /\ step_trace' = <<>>
              /\ UNCHANGED <<bot, pos, map, current_path, fully_explored>>
       ELSE \E again \in {recompute_path(map, scale, explorer_options,
                                          pos[1], pos[2], current_path)} :
            \E path \in {IF again THEN pathfind(map, scale, explorer_options, pos[1], pos[2])
                                   ELSE current_path} :
            \E called \in {IF again THEN <<<<"pathfind", path>>>> ELSE <<>>} :
                IF Len(path) = 0
                  THEN IF need_to_observe(map, scale, explorer_options, pos[1], pos[2])
                         THEN MoveObserveAndUpdate(path, called, 0, 0)
                       ELSE /\ fully_explored' = TRUE
                            /\ current_path' = path
                            /\ step_trace' = called
                            /\ UNCHANGED <<bot, pos, map>>
                ELSE \E command \in {controls(pos[1], pos[2], pos[3], path[Len(path)])} :
                         MoveObserveAndUpdate(SubSeq(path, 1, Len(path) - 1), called,
                                              command[1], command[2])
    /\ UNCHANGED <<scale, max_dist, calls, keyVars, serVars, landmarks, point_map,
                   slam_pc, tick, trace, ticks, ekfVars, lxVars, statusVars,
                   world, explorer_options>>

NextExplorer == Step

SpecExplorer == InitExplorer /\ [][NextExplorer]_vars

\* Explorer.step is called again and again: update of tk_sim.py calls it and
\* schedules itself anew each time.
SpecExplorerFair == SpecExplorer /\ WF_vars(Step)

----------------------------------------------------------------------------
(* Calls of Explorer.pathfind *)

\* The map of a layout.  A layout names cells by their indices (i, j), the
\* cell (i, j) having the key (5 i, 5 j): the cells of box, from column box[1]
\* to column box[2] and from row box[3] to row box[4], are held by the map,
\* but for the cells of unknown.  A cell of passable was stepped in once, a
\* cell of crossed was missed five times, a cell of glimpsed four times, and
\* every other cell held was hit twice.
MapOf(layout) ==
    LET width == layout.box[2] - layout.box[1] + 1
        height == layout.box[4] - layout.box[3] + 1
        cell(k) == <<layout.box[1] + ((k - 1) % width), layout.box[3] + ((k - 1) \div width)>>
        held == SelectSeq([k \in 1..(width * height) |-> cell(k)],
                          LAMBDA c : c \notin layout.unknown)
        counts(c) == [stepped_count |-> IF c \in layout.passable THEN 1 ELSE 0,
                      missed_count |-> IF c \in layout.crossed THEN 5
                                       ELSE IF c \in layout.glimpsed THEN 4 ELSE 0,
                      hit_count |-> IF c \in layout.passable \cup layout.crossed
                                            \cup layout.glimpsed THEN 0 ELSE 2]
    IN [keys |-> Held([k \in DOMAIN held |-> <<5 * held[k][1], 5 * held[k][2]>>]),
        loc |-> [key \in {<<5 * held[k][1], 5 * held[k][2]>> : k \in DOMAIN held} |->
                    counts(<<key[1] \div 5, key[2] \div 5>>)]]

\* A layout with no cell only missed.
Layout(box, passable, unknown) ==
    [box |-> box, passable |-> passable, crossed |-> {}, glimpsed |-> {},
     unknown |-> unknown]

\* Two routes to one unknown cell, (2, 4): four diagonal steps from (0, 0),
\* or three steps up the left column, a diagonal step and a step right.
Detour ==
    Layout(<<-1, 4, -1, 5>>,
           {<<0, 0>>, <<0, 1>>, <<0, 2>>, <<0, 3>>, <<1, 4>>,
            <<1, 1>>, <<2, 2>>, <<3, 3>>},
           {<<2, 4>>})

\* A room of three cells by three in the middle of unexplored ground.
Clearing ==
    Layout(<<0, 2, 0, 2>>,
           {<<i, j>> : i \in 0..2, j \in 0..2},
           {})

\* A walled room with one unknown cell, (2, 0), behind a blocked one.
Pillar ==
    Layout(<<-1, 3, -1, 2>>,
           {<<0, 0>>, <<0, 1>>, <<1, 1>>, <<2, 1>>},
           {<<2, 0>>})

\* A walled room that holds no unknown cell.
Closed ==
    Layout(<<-1, 2, -1, 2>>,
           {<<0, 0>>, <<1, 0>>, <<0, 1>>, <<1, 1>>},
           {})

PathLayouts == {Detour, Clearing, Pillar, Closed}

\* Explorer(slam, size): a robot narrower than a cell, and one nearly two
\* cells wide.
PathSizes == {3, 9}

\* The cells an explorer stands in when it calls pathfind: any cell of the
\* box, at its centre.
PathStarts(layout) ==
    {<<i, j>> : i \in layout.box[1]..layout.box[2], j \in layout.box[3]..layout.box[4]}

InitPath ==
    /\ \E layout \in PathLayouts, size \in PathSizes :
       \E start \in PathStarts(layout) :
           /\ map = MapOf(layout)
           /\ pos = <<5 * start[1], 5 * start[2], 0>>
           /\ explorer_options = ExplorerOptions(size)
    /\ scale = 5 /\ max_dist = 100 /\ calls = <<>>
    /\ landmarks = <<>> /\ point_map = <<>>
    /\ slam_pc = "idle" /\ tick = <<>> /\ trace = <<>> /\ ticks = 0
    /\ world = <<>> /\ bot = <<0, 0, 0>>
    /\ current_path = <<>> /\ fully_explored = FALSE /\ step_trace = <<>>
    /\ odd_step = FALSE
    /\ KeyIdle /\ SerIdle /\ EkfIdle /\ LxIdle /\ StatusIdle

\* A call of Explorer.pathfind; step_trace holds what it returned.
Pathfind ==
    /\ step_trace = <<>>
    /\ step_trace' = <<<<"pathfind", pathfind(map, scale, explorer_options, pos[1], pos[2])>>>>
    /\ UNCHANGED <<mapVars, keyVars, serVars, slamVars, ekfVars, lxVars, statusVars,
                   world, bot, explorer_options, current_path, fully_explored, odd_step>>

NextPath == Pathfind

SpecPath == InitPath /\ [][NextPath]_vars

----------------------------------------------------------------------------
(* An explorer planning over a map its slam holds *)

\* The cell c after a reflection in the y axis, if mirror, and k quarter
\* turns about the origin.
TurnedCell(c, k, mirror) ==
    LET m == IF mirror THEN <<-c[1], c[2]>> ELSE c
    IN CASE k = 0 -> m
         [] k = 1 -> <<-m[2], m[1]>>
         [] k = 2 -> <<-m[1], -m[2]>>
         [] k = 3 -> <<m[2], -m[1]>>

\* The layout turned likewise.
Turned(layout, k, mirror) ==
    LET a == TurnedCell(<<layout.box[1], layout.box[3]>>, k, mirror)
        b == TurnedCell(<<layout.box[2], layout.box[4]>>, k, mirror)
    IN [box |-> <<Smaller(a[1], b[1]), Larger(a[1], b[1]),
                  Smaller(a[2], b[2]), Larger(a[2], b[2])>>,
        passable |-> {TurnedCell(c, k, mirror) : c \in layout.passable},
        crossed |-> {TurnedCell(c, k, mirror) : c \in layout.crossed},
        glimpsed |-> {TurnedCell(c, k, mirror) : c \in layout.glimpsed},
        unknown |-> {TurnedCell(c, k, mirror) : c \in layout.unknown}]

\* An unexplored corridor, one cell wide between blocked cells, that winds
\* clockwise one and a half times around the cell the robot starts in.
Spiral ==
    Layout(<<-3, 3, -4, 3>>,
           {<<0, 0>>},
           {<<0, -1>>, <<-1, -1>>, <<-2, -1>>, <<-2, 0>>, <<-2, 1>>, <<-2, 2>>,
            <<-1, 2>>, <<0, 2>>, <<1, 2>>, <<2, 2>>, <<2, 1>>, <<2, 0>>,
            <<2, -1>>, <<2, -2>>, <<2, -3>>, <<1, -3>>})

\* Pillar with its unknown cell held and missed four times.
Glimpse == [Pillar EXCEPT !.unknown = {}, !.glimpsed = {<<2, 0>>}]

\* A room of four cells by three whose walls lie in the cells around it; the
\* cell (3, 0) of the wall was only missed so far and the cell behind it is
\* unknown.
Doorway ==
    [Layout(<<-2, 4, -2, 2>>,
            {<<i, j>> : i \in -1..2, j \in -1..1},
            {<<4, 0>>}) EXCEPT !.crossed = {<<3, 0>>}]

\* Blocked cells around two cells not seen yet: the one the robot starts in
\* and the one east of it.
Unseen == Layout(<<-3, 3, -3, 3>>, {}, {<<0, 0>>, <<1, 0>>})

\* A World that holds no obstacle, with the robot and the sensors of Simulation.
OpenGround == [Simulation(0, 0, 0, 0, 1) EXCEPT !.obstacles = <<>>]

\* The runs checked: a layout of what the map holds, and the world.
PlanRuns ==
    {[layout |-> Turned(layout, k, mirror), world |-> OpenGround] :
        layout \in {Spiral, Pillar, Glimpse, Unseen}, k \in 0..3, mirror \in BOOLEAN}
    \cup {[layout |-> Doorway, world |-> Simulation(-8, 13, -8, 8, 1)]}

\* Explorer(slam, 9) on a slam that holds CollisionMap(5, 10) and believes
\* itself where its robot is, at the origin.
InitPlan ==
    /\ \E run \in PlanRuns :
        /\ map = MapOf(run.layout)
        /\ world = run.world
    /\ explorer_options = ExplorerOptions(9)
    /\ scale = 5 /\ max_dist = 10 /\ calls = <<>>
    /\ bot = <<0, 0, 0>>
    /\ current_path = <<>> /\ fully_explored = FALSE /\ step_trace = <<>>
    /\ odd_step = FALSE
    /\ KeyIdle /\ SerIdle /\ SlamIdle /\ EkfIdle /\ LxIdle /\ StatusIdle

NextPlan == Step

SpecPlan == InitPlan /\ [][NextPlan]_vars

----------------------------------------------------------------------------
(* landmark_extraction.extract_ransac: an attempt of its loop, up to the list
   of the points offered for sampling *)

\* Lines 114-116 of extract_ransac: the points of the readings, each with its
\* normalized angle; a reading is <<angle, distance>>.
data_of(p, raw_data) ==
    Held([i \in 1..Len(raw_data) |->
             <<p[1] + raw_data[i][2] * CosQ(p[3] + raw_data[i][1]),
               p[2] + raw_data[i][2] * SinQ(p[3] + raw_data[i][1]),
               normalize_angle(raw_data[i][1])>>])

\* Line 120 of extract_ransac: too few points are left to reach consensus.
too_few_left(data, associated, consensus) ==
    Len(data) - Cardinality(associated) < consensus

\* Line 125 of extract_ransac: the points choice draws the base point from.
unclaimed(data, associated) ==
    LET free(p) == p \notin associated
    IN SelectSeq(data, free)

\* Lines 128-137 of extract_ransac: the unclaimed points within the range of
\* the base point.
possible_points(data, associated, point, ransac_range) ==
    LET start == normalize_angle(point[3] - ransac_range)
        end == normalize_angle(point[3] + ransac_range)
        between(p) == p \notin associated /\ p # point /\ (p[3] >= start /\ p[3] <= end)
        around(p) == p \notin associated /\ p # point /\ (p[3] >= end \/ p[3] <= start)
    IN IF start < end THEN SelectSeq(data, between) ELSE SelectSeq(data, around)

\* Bound: the number of readings of a scan.
MaxReadings == 3

\* The readings: angles from a quarter turn below zero to a whole turn, at
\* two ranges.
RansacReadings == {<<angle, distance>> : angle \in -1..4, distance \in {5, 10}}

RansacScans == UNION {[1..n -> RansacReadings] : n \in 1..MaxReadings}

\* What earlier attempts may have associated: nothing, or the points on a
\* vertical line through one of them.
Associable(data) ==
    {{}} \cup {{data[j] : j \in {k \in DOMAIN data : data[k][1] = data[i][1]}} :
                  i \in DOMAIN data}

\* extract_ransac(pos, raw_data, ransac_range = a quarter or half a turn,
\* ransac_consensus = 1 or 3) at the start of an attempt.
InitRansac ==
    /\ \E raw_data \in RansacScans, ransac_range \in {1, 2}, consensus \in {1, 3} :
       \E associated \in Associable(data_of(<<0, 0, 0>>, raw_data)) :
           lx_input = [pos |-> <<0, 0, 0>>, raw_data |-> Held(raw_data),
                       ransac_range |-> ransac_range,
                       ransac_consensus |-> consensus,
                       associated |-> associated]
    /\ lx_output = <<>>
    /\ ExtractionIdle /\ StatusIdle /\ ExpIdle

\* An attempt that goes on: choice draws the base point, and the points
\* offered for sampling are listed.
RansacAttempt ==
    /\ lx_output = <<>>
    /\ \E data \in {data_of(lx_input.pos, lx_input.raw_data)} :
          /\ ~too_few_left(data, lx_input.associated, lx_input.ransac_consensus)
          /\ \E free \in {unclaimed(data, lx_input.associated)} :
             \E i \in DOMAIN free :
                 lx_output' = ("point" :> free[i]) @@
                              ("possible_points" :>
                                   possible_points(data, lx_input.associated, free[i],
                                                   lx_input.ransac_range))
    /\ UNCHANGED <<lx_input, mapVars, keyVars, serVars, slamVars, ekfVars, statusVars, expVars>>

\* An attempt that ends the loop: too few points are left.
RansacQuit ==
    /\ lx_output = <<>>
    /\ too_few_left(data_of(lx_input.pos, lx_input.raw_data), lx_input.associated,
                    lx_input.ransac_consensus)
    /\ lx_output' = ("quit" :> TRUE)
    /\ UNCHANGED <<lx_input, mapVars, keyVars, serVars, slamVars, ekfVars, statusVars, expVars>>

NextRansac == RansacAttempt \/ RansacQuit

SpecRansac == InitRansac /\ [][NextRansac]_vars

----------------------------------------------------------------------------
(* Claims about the collision map *)

Keys(m) == DOMAIN m.loc

\* C1: across record_observations calls no stepped, missed or hit counter of
\* a cell decreases, every counter is a non-negative integer, and no key that
\* was present is removed.
C1_MapMonotone ==
    /\ [](\A k \in Keys(map) : /\ map.loc[k].stepped_count \in Nat
                               /\ map.loc[k].missed_count \in Nat
                               /\ map.loc[k].hit_count \in Nat)
    /\ [][\A k \in Keys(map) :
            /\ k \in Keys(map')
            /\ map'.loc[k].stepped_count >= map.loc[k].stepped_count
            /\ map'.loc[k].missed_count >= map.loc[k].missed_count
            /\ map'.loc[k].hit_count >= map.loc[k].hit_count]_vars

\* A second call has written to a cell the first call had materialized with
\* hits or misses, and stepped into it.
C1_Witness ==
    /\ Len(calls) = 2
    /\ \E k \in Keys(map) :
        /\ map.loc[k].stepped_count >= 1
        /\ map.loc[k].missed_count + map.loc[k].hit_count >= 1

\* The single call of a behaviour with one call of one observation.
OneRay == Len(calls) = 1 /\ Len(calls[1].observations) = 1

RayCtx ==
    LET c == calls[1]
        o == c.observations[1]
    IN LineCtx(scale, max_dist, c.x, c.y, AngleAdd(c.theta, o.delta_theta), o.distance)

RayDistance == calls[1].observations[1].distance

\* The ray starts at a cell centre, runs along a grid axis or diagonal, and
\* ends at a cell centre with distance <= max_dist.
AlignedRay ==
    /\ OneRay
    /\ calls[1].x % scale = 0 /\ calls[1].y % scale = 0
    /\ RayCtx.z[1] \in -1..1 /\ RayCtx.z[2] \in -1..1
    /\ WithinMax(RayDistance, max_dist)
    /\ RayCtx.end_x % (RayCtx.den * scale) = 0
    /\ RayCtx.end_y % (RayCtx.den * scale) = 0

\* Number of cells from the agent cell to the endpoint cell.
RaySteps ==
    LET a == RayCtx.start_point_key
        e == RayCtx.end_point_key
        dx == Abs(e[1] - a[1])
        dy == Abs(e[2] - a[2])
    IN (IF dx > dy THEN dx ELSE dy) \div scale

\* The cells strictly between the agent cell and the endpoint cell.
RayBetween ==
    LET a == RayCtx.start_point_key
        e == RayCtx.end_point_key
    IN {<<a[1] + j * ((e[1] - a[1]) \div RaySteps),
          a[2] + j * ((e[2] - a[2]) \div RaySteps)>> : j \in 1..(RaySteps - 1)}

RayPattern ==
    /\ Keys(map) = {RayCtx.start_point_key, RayCtx.end_point_key}
                   \cup (IF RaySteps = 0 THEN {} ELSE RayBetween)
    /\ map.loc[RayCtx.start_point_key] = Loc(1, 0, 0)
    /\ map.loc[RayCtx.end_point_key] = Loc(0, 0, 1)
    /\ \A k \in Keys(map) \ {RayCtx.start_point_key, RayCtx.end_point_key} :
          map.loc[k] = Loc(0, 1, 0)

\* C6 as claimed: every aligned ray of distance d <= max_dist leaves the agent
\* cell at (1,0,0), the endpoint cell at (0,0,1), the cells strictly between
\* at (0,1,0) and nothing else.
C6_AsClaimed == AlignedRay => RayPattern

\* C6 as amended: the same for rays with 0 < |d| <= max_dist.
C6_AlignedRay ==
    (/\ AlignedRay
     /\ RayDistance.n # 0
     /\ WithinMax([n |-> Abs(RayDistance.n), r |-> RayDistance.r], max_dist))
    => RayPattern

\* An aligned diagonal ray whose direction comes from the pose heading, with
\* an intermediate cell.
C6_Witness ==
    /\ AlignedRay
    /\ RayDistance.n > 0
    /\ calls[1].theta = NorthEast
    /\ RaySteps = 2
    /\ RayPattern

Counters(l, k) == IF k \in DOMAIN l THEN l[k] ELSE MapLocation

\* Cell-wise sum of two key -> MapLocation functions.
LocSum(l1, l2) ==
    [k \in (DOMAIN l1) \cup (DOMAIN l2) |->
        Loc(Counters(l1, k).stepped_count + Counters(l2, k).stepped_count,
            Counters(l1, k).missed_count + Counters(l2, k).missed_count,
            Counters(l1, k).hit_count + Counters(l2, k).hit_count)]

\* Sum of the maps each call produces alone on an empty map.
RECURSIVE SumAlone(_, _, _)
SumAlone(sc, md, cs) ==
    IF cs = <<>> THEN [k \in {} |-> MapLocation]
    ELSE LocSum(ReplayCalls(EmptyMap, sc, md, <<Head(cs)>>).loc, SumAlone(sc, md, Tail(cs)))

Reverse(s) == [i \in 1..Len(s) |-> s[Len(s) + 1 - i]]

SameLoc(l1, l2) == DOMAIN l1 = DOMAIN l2 /\ \A k \in DOMAIN l1 : l1[k] = l2[k]

\* C7: the map equals the cell-wise sum of the maps each call produces alone
\* on an empty map, and the calls made in the opposite order give the same
\* cells and counters.
C7_Additive ==
    /\ SameLoc(map.loc, SumAlone(scale, max_dist, calls))
    /\ SameLoc(map.loc, ReplayCalls(EmptyMap, scale, max_dist, Reverse(calls)).loc)

\* The crossing rays of the unit test: the cell both rays cross has missed = 2.
C7_Witness ==
    /\ scale = 5 /\ max_dist = 100
    /\ calls = <<Call(0, 0, East, <<Obs(East, 10, 1)>>),
                 Call(5, -5, North, <<Obs(East, 10, 1)>>)>>
    /\ map.loc[<<5, 0>>] = Loc(0, 2, 0)
    /\ map.loc[<<5, 5>>] = Loc(0, 0, 1)

\* The multiple k of scale brackets the coordinate n/den:
\* k - scale/2 <= n/den < k + scale/2.
Brackets(k, n, den) ==
    /\ k % scale = 0
    /\ 2 * den * k - den * scale <= 2 * n
    /\ 2 * n < 2 * den * k + den * scale

\* C8: the key of a point is, in each coordinate c, the multiple m of scale
\* with m - scale/2 <= c < m + scale/2; every stored key is a pair of
\* multiples of scale; with scale 5 the keys of (2,-2), (3,3) and (-10,-2) are
\* (0,0), (5,5) and (-10,0).
C8_KeyBrackets ==
    /\ \A i \in DOMAIN probes :
        /\ Brackets(probes[i].key[1], probes[i].xn, probes[i].den)
        /\ Brackets(probes[i].key[2], probes[i].yn, probes[i].den)
        /\ (scale = 5 /\ probes[i].den = 1) =>
            /\ (probes[i].xn = 2 /\ probes[i].yn = -2) => probes[i].key = <<0, 0>>
            /\ (probes[i].xn = 3 /\ probes[i].yn = 3) => probes[i].key = <<5, 5>>
            /\ (probes[i].xn = -10 /\ probes[i].yn = -2) => probes[i].key = <<-10, 0>>
    /\ \A k \in Keys(map) : k[1] % scale = 0 /\ k[2] % scale = 0

\* A point on a cell boundary was looked up with create and its key, away from
\* the origin, is stored.
C8_Witness ==
    /\ scale = 5
    /\ \E i \in DOMAIN probes :
        /\ probes[i].create
        /\ 2 * probes[i].xn = probes[i].den * (2 * probes[i].key[1] - scale)
        /\ probes[i].key # <<0, 0>>
        /\ probes[i].key \in Keys(map)

\* |a - b| < scale/2 for a = an/ad, b = bn/bd.
Near(an, ad, bn, bd) == 2 * Abs(an * bd - bn * ad) < scale * ad * bd

\* C9 as claimed: any two coordinates less than scale/2 apart have the same
\* key, and the key of (0, 0) is (0, 0).
C9_AsClaimed ==
    /\ \A i, j \in DOMAIN probes :
        /\ Near(probes[i].xn, probes[i].den, probes[j].xn, probes[j].den)
            => probes[i].key[1] = probes[j].key[1]
        /\ Near(probes[i].yn, probes[i].den, probes[j].yn, probes[j].den)
            => probes[i].key[2] = probes[j].key[2]
    /\ \A i \in DOMAIN probes :
        (probes[i].xn = 0 /\ probes[i].yn = 0) => probes[i].key = <<0, 0>>

\* C9 as amended: a coordinate less than scale/2 away from a cell centre (a
\* multiple of scale) has that centre as its key, and the key of (0, 0) is
\* (0, 0).
C9_CentreStable ==
    /\ \A i, j \in DOMAIN probes :
        /\ (/\ probes[i].xn % (probes[i].den * scale) = 0
            /\ Near(probes[i].xn, probes[i].den, probes[j].xn, probes[j].den))
            => (probes[j].key[1] = probes[i].key[1]
                /\ probes[i].key[1] * probes[i].den = probes[i].xn)
        /\ (/\ probes[i].yn % (probes[i].den * scale) = 0
            /\ Near(probes[i].yn, probes[i].den, probes[j].yn, probes[j].den))
            => (probes[j].key[2] = probes[i].key[2]
                /\ probes[i].key[2] * probes[i].den = probes[i].yn)
    /\ \A i \in DOMAIN probes :
        (probes[i].xn = 0 /\ probes[i].yn = 0) => probes[i].key = <<0, 0>>

\* The origin and a different point less than scale/2 away from it in both
\* coordinates were looked up.
C9_Witness ==
    /\ Len(probes) = 2
    /\ probes[1].xn = 0 /\ probes[1].yn = 0
    /\ probes[2].xn # 0 /\ probes[2].yn # 0
    /\ Near(0, 1, probes[2].xn, probes[2].den)
    /\ Near(0, 1, probes[2].yn, probes[2].den)
    /\ probes[2].key = <<0, 0>>

\* C10: parsing the string a map serializes to yields a map with the same
\* scale, the same max_dist, the same key set and equal counters in every
\* cell; a string parsed after it was taken from the map is that map.
C10_RoundTrip ==
    /\ LET p == from_string(to_string(map, scale, max_dist))
       IN /\ p.ok
          /\ p.scale = scale /\ p.max_dist = max_dist
          /\ Keys(p.map) = Keys(map)
          /\ \A k \in Keys(map) : p.map.loc[k] = map.loc[k]
    /\ (parsed # MalformedMap) =>
          /\ parsed.scale = scale /\ parsed.max_dist = max_dist
          /\ parsed.map = map

\* A map with a negative key and a counter above one was serialized and
\* parsed back.
C10_Witness ==
    /\ text = to_string(map, scale, max_dist)
    /\ parsed.ok
    /\ parsed.map.loc = map.loc
    /\ \E k \in Keys(map) : k[2] < 0 /\ map.loc[k].stepped_count = 2
    /\ \E k \in Keys(map) : map.loc[k].missed_count >= 1

\* The tick has returned or raised.
TickOver == ticks > 0 /\ slam_pc = "idle"

\* C3: a tick calls, in this order and nothing between them out of order,
\* move, get_distance_reading, the landmark extraction, EKF.update and the
\* collision map's record_observations, which is given the pose the EKF update
\* left; so a tick that is over has made the last two calls, after extraction.
C3_AsClaimed ==
    TickOver =>
        \E i, j, k \in DOMAIN trace :
            /\ i < j /\ j < k
            /\ trace[i] = "extract_ransac"
            /\ trace[j] = "EKF.update"
            /\ trace[k] = "record_observations"

\* C2: after any sequence of EKF.update calls the two landmark lists have
\* the same length L, the system state has 3 + 2L rows, and the covariance
\* is a square matrix of 3 + 2L rows that equals its transpose.
C2_EkfShape ==
    LET L == Len(landmark_types)
        size == 3 + 2 * L
    IN /\ Len(landmark_counts) = L
       /\ Len(system_state) = size
       /\ Len(covariance) = size
       /\ \A i \in 1..size : Len(covariance[i]) = size
       /\ \A i, j \in 1..size : covariance[i][j] = covariance[j][i]

\* Updates have added landmarks in at least two calls, one call associated
\* an observation, and the covariance ties a landmark to the pose and to
\* another landmark.
C2_Witness ==
    /\ Len(landmark_types) >= 2
    /\ \E c \in DOMAIN ekf_calls : \E i \in DOMAIN ekf_calls[c].associated :
            ekf_calls[c].associated[i] > 0
    /\ \E c, d \in DOMAIN ekf_calls :
            /\ c < d
            /\ \E i \in DOMAIN ekf_calls[c].associated : ekf_calls[c].associated[i] = 0
            /\ \E i \in DOMAIN ekf_calls[d].associated : ekf_calls[d].associated[i] = 0
    /\ covariance[4][1] # <<0, 1>>
    /\ covariance[6][4] # <<0, 1>>

----------------------------------------------------------------------------
(* Claims about reading the collision map *)

LastProbe == probes[Len(probes)]

\* C11: a get_location call without create returns a location with all three
\* counters zero when the key is absent, and leaves the keys and every counter
\* of the map unchanged; a key is added only by a record_observations call or
\* by a get_location call with create.
C11_ReadDoesNotMaterialize ==
    /\ [][(probes' # probes /\ ~probes'[Len(probes')].create)
            => /\ map' = map
               /\ ~HasKey(map, probes'[Len(probes')].key)
                    => probes'[Len(probes')].location = Loc(0, 0, 0)
               /\ HasKey(map, probes'[Len(probes')].key)
                    => probes'[Len(probes')].location = map.loc[probes'[Len(probes')].key]]_vars
    /\ [][Keys(map') # Keys(map)
            => \/ calls' # calls
               \/ probes' # probes /\ probes'[Len(probes')].create]_vars

\* After two record_observations calls, a read without create of a key the
\* map does not hold.
C11_Witness ==
    /\ Len(calls) = 2 /\ Len(probes) = 1
    /\ ~LastProbe.create
    /\ ~HasKey(map, LastProbe.key)
    /\ Cardinality(Keys(map)) >= 3

----------------------------------------------------------------------------
(* Claims about the EKF *)

LastUpdate == ekf_calls[Len(ekf_calls)]

\* The landmarks an update matched, as indices counted from 1.
Matched(call) == {call.associated[i] : i \in DOMAIN call.associated} \ {0, -1}

\* How many observations of an update were matched with landmark k.
TimesMatched(call, k) == Cardinality({i \in DOMAIN call.associated : call.associated[i] = k})

\* An observation of an update was matched with a landmark the state holds
\* somewhere else than where the observation is.
MatchedElsewhere(call, state) ==
    \E i \in DOMAIN call.associated :
        /\ call.associated[i] > 0
        /\ <<state[RowOf(call.associated[i])], state[RowOf(call.associated[i]) + 1]>>
               # <<RInt(call.observed_landmarks[i][1]), RInt(call.observed_landmarks[i][2])>>

\* C12: when every landmark an update matches has, after the increments of
\* that update, a count at or below landmark_threshold, the pose afterwards
\* is the dead-reckoned pose (theta + delta_theta, x + d cos, y + d sin), no
\* coordinate of a landmark held before has changed, and each count has grown
\* by the number of observations matched with it.
C12_UnconfirmedIsInert ==
    [][(/\ ekf_calls' # ekf_calls
        /\ ~ekf_calls'[Len(ekf_calls')].raised
        /\ \A k \in Matched(ekf_calls'[Len(ekf_calls')]) :
              landmark_counts'[k] <= ekf_options.ekf_landmark_threshold)
       => /\ system_state'[3] = RInt(system_state[3][1] + ekf_calls'[Len(ekf_calls')].delta_theta)
          /\ system_state'[1] = RAdd(system_state[1],
                                     RInt(ekf_calls'[Len(ekf_calls')].odemetry
                                          * CosQ(system_state'[3][1])))
          /\ system_state'[2] = RAdd(system_state[2],
                                     RInt(ekf_calls'[Len(ekf_calls')].odemetry
                                          * SinQ(system_state'[3][1])))
          /\ \A r \in 4..Len(system_state) : system_state'[r] = system_state[r]
          /\ \A k \in 1..Len(landmark_counts) :
                landmark_counts'[k] = landmark_counts[k]
                                      + TimesMatched(ekf_calls'[Len(ekf_calls')], k)]_vars

\* An update that moved has matched a landmark whose count stays at or below
\* the threshold with an observation that is not where the state holds it.
C12_Witness ==
    /\ Len(ekf_calls) = 2
    /\ ~LastUpdate.raised
    /\ LastUpdate.odemetry > 0
    /\ Matched(LastUpdate) # {}
    /\ \A k \in Matched(LastUpdate) : landmark_counts[k] <= ekf_options.ekf_landmark_threshold
    /\ MatchedElsewhere(LastUpdate, system_state)

\* The calls of test_linear_move_and_observe have been made on a filter
\* built as setUp builds it: update(0, 0, [(20, 0, statue)]) and then
\* update(0, 5, [(19, 0, statue)]).
LinearMoveAndObserve ==
    /\ ekf_options = EKF_init(TestKeywords)
    /\ Len(ekf_calls) = 2
    /\ ekf_calls[1].delta_theta = 0 /\ ekf_calls[1].odemetry = 0
    /\ ekf_calls[1].observed_landmarks = << <<20, 0, "statue">> >>
    /\ ekf_calls[2].delta_theta = 0 /\ ekf_calls[2].odemetry = 5
    /\ ekf_calls[2].observed_landmarks = << <<19, 0, "statue">> >>

\* C13 as claimed: the filter of the test suite, EKF(landmark_threshold=0),
\* holds a landmark threshold of 0, and after update(0, 0, [(20, 0, statue)])
\* and update(0, 5, [(19, 0, statue)]) its pose is not the dead-reckoned
\* pose (5, 0, 0).
C13_AsClaimed ==
    LinearMoveAndObserve
    => /\ ekf_options.ekf_landmark_threshold = 0
       /\ <<system_state[1], system_state[2], system_state[3]>>
              # <<RInt(5), RInt(0), RInt(0)>>

\* The calls of test_add_two_landmarks have been made on a filter just
\* built: update(0, 0, [(20, 0, A)]) and then update(0, 0, [(0, 20, B)]),
\* with A # B.
AddTwoLandmarks ==
    /\ Len(ekf_calls) = 2
    /\ ekf_calls[1].delta_theta = 0 /\ ekf_calls[1].odemetry = 0
    /\ ekf_calls[2].delta_theta = 0 /\ ekf_calls[2].odemetry = 0
    /\ Len(ekf_calls[1].observed_landmarks) = 1
    /\ Len(ekf_calls[2].observed_landmarks) = 1
    /\ <<ekf_calls[1].observed_landmarks[1][1], ekf_calls[1].observed_landmarks[1][2]>> = <<20, 0>>
    /\ <<ekf_calls[2].observed_landmarks[1][1], ekf_calls[2].observed_landmarks[1][2]>> = <<0, 20>>
    /\ ekf_calls[1].observed_landmarks[1][3] # ekf_calls[2].observed_landmarks[1][3]

\* The pose is (0, 0, 0), the landmarks are appended in order, and the
\* covariance of each landmark with the pose and of the second landmark with
\* the first is 0.95 between the two x and between the two y, 0 elsewhere.
InsertedInOrder ==
    /\ system_state = <<RInt(0), RInt(0), RInt(0), RInt(20), RInt(0), RInt(0), RInt(20)>>
    /\ landmark_counts = <<1, 1>>
    /\ \A a \in {4, 6} :
          /\ covariance[a][1] = <<19, 20>> /\ covariance[a + 1][2] = <<19, 20>>
          /\ covariance[a][2] = RInt(0) /\ covariance[a + 1][1] = RInt(0)
          /\ covariance[a][3] = RInt(0) /\ covariance[a + 1][3] = RInt(0)
          /\ covariance[a][a + 1] = RInt(0)
    /\ covariance[6][4] = <<19, 20>> /\ covariance[7][5] = <<19, 20>>
    /\ covariance[6][5] = RInt(0) /\ covariance[7][4] = RInt(0)

\* C14 as claimed: after the two insertions at the unmoved pose the state is
\* [0,0,0,20,0,0,20], the cross-covariances are 0.95 on the matching axis, and
\* the self-variance of each landmark is 1.15 on its range axis (x for the
\* landmark at (20, 0), y for the landmark at (0, 20)) and 0.95 on the other.
C14_AsClaimed ==
    AddTwoLandmarks
    => /\ InsertedInOrder
       /\ covariance[4][4] = <<23, 20>> /\ covariance[5][5] = <<19, 20>>
       /\ covariance[7][7] = <<23, 20>> /\ covariance[6][6] = <<19, 20>>

\* C14 as amended: the same, the self-variance of each landmark being 1.15
\* on x, the axis of the heading of the pose, and 0.95 on y, wherever the
\* landmark is.
C14_InsertTwoLandmarks ==
    AddTwoLandmarks
    => /\ InsertedInOrder
       /\ covariance[4][4] = <<23, 20>> /\ covariance[5][5] = <<19, 20>>
       /\ covariance[6][6] = <<23, 20>> /\ covariance[7][7] = <<19, 20>>

\* The two insertions have been made and none of the observations was
\* associated.
C14_Witness ==
    /\ AddTwoLandmarks
    /\ Len(landmark_types) = 2
    /\ ekf_calls[1].associated = <<0>> /\ ekf_calls[2].associated = <<0>>

\* C15: across EKF.update calls the number of landmarks never decreases, the
\* kind held at an index never changes, no count decreases, the count of a
\* landmark is 1 when it is inserted, and neither the system state nor the
\* covariance loses a row or a column.
C15_EkfGrowsOnly ==
    [][/\ Len(landmark_types') >= Len(landmark_types)
       /\ \A k \in 1..Len(landmark_types) : landmark_types'[k] = landmark_types[k]
       /\ \A k \in 1..Len(landmark_counts) : landmark_counts'[k] >= landmark_counts[k]
       /\ \A k \in (Len(landmark_counts) + 1)..Len(landmark_counts') : landmark_counts'[k] = 1
       /\ Len(system_state') >= Len(system_state)
       /\ Len(covariance') >= Len(covariance)
       /\ \A i \in 1..Len(covariance) : Len(covariance'[i]) >= Len(covariance[i])]_vars

\* The second update has inserted a landmark after the one the first update
\* inserted, and has raised the count of that one.
C15_Witness ==
    /\ Len(ekf_calls) = 2
    /\ Len(landmark_types) = 2
    /\ landmark_counts[1] >= 2
    /\ landmark_counts[2] = 1
    /\ Len(ekf_calls[1].associated) = 1
    /\ Len(system_state) = 7

\* The innovation covariance EKF.__associate_landmarks computed for an
\* observation of the update and its nearest landmark had determinant 0.
SingularSeen(call) == \E i \in DOMAIN call.associated : call.associated[i] = -1

\* C16 as claimed: an update that meets a singular innovation covariance does
\* not fail; the observation is appended as a new landmark, seen once, after
\* the landmarks held.
C16_AsClaimed ==
    \A c \in DOMAIN ekf_calls :
        SingularSeen(ekf_calls[c])
        => /\ ~ekf_calls[c].raised
           /\ c = Len(ekf_calls)
                => \A i \in DOMAIN ekf_calls[c].associated :
                      ekf_calls[c].associated[i] = -1
                      => \E k \in 2..Len(landmark_types) :
                            /\ landmark_types[k] = ekf_calls[c].observed_landmarks[i][3]
                            /\ landmark_counts[k] = 1
                            /\ system_state[RowOf(k)] = RInt(ekf_calls[c].observed_landmarks[i][1])
                            /\ system_state[RowOf(k) + 1] = RInt(ekf_calls[c].observed_landmarks[i][2])

----------------------------------------------------------------------------
(* Claims about landmark extraction *)

\* C17 as claimed: for all angles, normalize_angle returns an angle in
\* [0, tau) and the magnitude of normalized_angle_difference is at most pi,
\* half of tau.
C17_AsClaimed ==
    /\ "normalize_angle" \in DOMAIN lx_output
          => /\ 0 <= lx_output["normalize_angle"]
             /\ lx_output["normalize_angle"] < tau
    /\ "normalized_angle_difference" \in DOMAIN lx_output
          => 2 * Abs(lx_output["normalized_angle_difference"]) <= tau

\* The range of the reading at index i, counted from 0 and taken modulo the
\* length of the scan.
RangeAt(i) == lx_input.raw_data[(i % Len(lx_input.raw_data)) + 1][2]

\* The claim's condition for a landmark at index i, counted from 0.
EmitsAt(i) ==
    /\ ~(~wrap_around(lx_input.raw_data) /\ (i = 0 \/ i = Len(lx_input.raw_data) - 1))
    /\ RangeAt(i - 1) >= 0 /\ RangeAt(i) >= 0 /\ RangeAt(i + 1) >= 0
    /\ (RangeAt(i - 1) - RangeAt(i)) + (RangeAt(i + 1) - RangeAt(i))
           >= lx_input.spike_threshold

\* The point of the reading at index i, counted from 0, seen from pos.
PointAt(i) ==
    <<lx_input.pos[1] + RangeAt(i) * CosQ(lx_input.pos[3] + lx_input.raw_data[i + 1][1]),
      lx_input.pos[2] + RangeAt(i) * SinQ(lx_input.pos[3] + lx_input.raw_data[i + 1][1])>>

\* The points of the indices that meet the condition, in increasing order.
ExpectedSpikes ==
    LET emitting == {i \in 0..(Len(lx_input.raw_data) - 1) : EmitsAt(i)}
        nth(k) == CHOOSE i \in emitting : Cardinality({j \in emitting : j < i}) = k - 1
    IN Held([k \in 1..Cardinality(emitting) |-> PointAt(nth(k))])

\* C18 as claimed: extract_spike returns, in increasing index order, the
\* points of the indices i that are not an end of a scan that does not wrap
\* around, whose A, B and C are non-negative and for which
\* (A - B) + (C - B) >= spike_threshold; a scan of length 0, 1 or 2 yields
\* no landmark.
C18_AsClaimed ==
    "extract_spike" \in DOMAIN lx_output
    => /\ lx_output["extract_spike"] = ExpectedSpikes
       /\ Len(lx_input.raw_data) <= 2 => lx_output["extract_spike"] = <<>>

\* C18 as amended: the same, a scan of length 0 or 1 yielding no landmark and
\* a scan of length 2 yielding none unless it wraps around.
C18_SpikeCondition ==
    "extract_spike" \in DOMAIN lx_output
    => /\ lx_output["extract_spike"] = ExpectedSpikes
       /\ Len(lx_input.raw_data) <= 1 => lx_output["extract_spike"] = <<>>
       /\ (Len(lx_input.raw_data) = 2 /\ ~wrap_around(lx_input.raw_data))
             => lx_output["extract_spike"] = <<>>

\* A scan of four readings that wraps around has yielded two landmarks, one
\* of them at its first index, seen from a pose that is not the origin.
C18_Witness ==
    /\ "extract_spike" \in DOMAIN lx_output
    /\ Len(lx_input.raw_data) = 4
    /\ wrap_around(lx_input.raw_data)
    /\ Len(lx_output["extract_spike"]) = 2
    /\ EmitsAt(0)
    /\ lx_input.pos # <<0, 0, 0>>

\* The steps between consecutive readings of the scan are all the same.
EvenlySpaced(raw_data) ==
    \A i \in 1..(Len(raw_data) - 1) :
        normalized_angle_difference(raw_data[i][1], raw_data[i + 1][1])
            = normalized_angle_difference(raw_data[1][1], raw_data[2][1])

BothExtracted ==
    /\ "extract_spike" \in DOMAIN lx_output
    /\ "extract_spike_reversed" \in DOMAIN lx_output

\* C19 as claimed: for any scan, extract_spike of the scan in the opposite
\* order returns the landmarks of the scan in the opposite order.
C19_AsClaimed ==
    BothExtracted
    => lx_output["extract_spike_reversed"] = Held(Reverse(lx_output["extract_spike"]))

\* C19 as amended: the same for any evenly spaced scan.
C19_SpikeSymmetry ==
    (BothExtracted /\ EvenlySpaced(lx_input.raw_data))
    => lx_output["extract_spike_reversed"] = Held(Reverse(lx_output["extract_spike"]))

\* An evenly spaced scan that wraps around has yielded two landmarks at
\* different points, in both orders.
C19_Witness ==
    /\ BothExtracted
    /\ EvenlySpaced(lx_input.raw_data)
    /\ wrap_around(lx_input.raw_data)
    /\ Len(lx_output["extract_spike"]) = 2
    /\ lx_output["extract_spike"][1] # lx_output["extract_spike"][2]

----------------------------------------------------------------------------
(* Claims about the exploration planner *)

\* C20: get_space_status takes the first match in the order stepped, hit,
\* missed, unknown: PASSABLE when the stepped count reaches step_threshold,
\* whatever the hit count; otherwise BLOCKED when the hit count reaches
\* hit_threshold, whatever the missed count; otherwise PASSABLE when the
\* missed count reaches miss_threshold; otherwise UNKNOWN.  A cell the map
\* does not hold is UNKNOWN when the three thresholds are positive.
C20_FirstMatch ==
    space_status # <<>> =>
        LET opts == space_query.opts
            space == space_status[1].space
            status == space_status[1].status
            stepped == space.stepped_count >= opts.step_threshold
            hit == space.hit_count >= opts.hit_threshold
            missed == space.missed_count >= opts.miss_threshold
            absent == ~HasKey(space_query.map,
                              get_key(scale, space_query.x, space_query.y, 1))
        IN /\ stepped => status = PASSABLE
           /\ ~stepped /\ hit => status = BLOCKED
           /\ ~stepped /\ ~hit /\ missed => status = PASSABLE
           /\ ~stepped /\ ~hit /\ ~missed => status = UNKNOWN
           /\ (/\ absent
               /\ opts.step_threshold > 0
               /\ opts.hit_threshold > 0
               /\ opts.miss_threshold > 0) => status = UNKNOWN

\* A cell both stepped in and hit often enough has been classified, with the
\* default thresholds.
C20_Witness ==
    /\ space_status # <<>>
    /\ space_query.opts = [step_threshold |-> 1, miss_threshold |-> 5, hit_threshold |-> 2]
    /\ space_status[1].space = [stepped_count |-> 1, missed_count |-> 5, hit_count |-> 2]
    /\ space_status[1].status = PASSABLE

----------------------------------------------------------------------------
(* Claims about an explorer driving the simulated robot *)

----------------------------------------------------------------------------
(* Claims about Explorer.pathfind *)

\* The classification of the cell of a key.
StatusAt(m, opts, key) == get_space_status(opts, get_location(m, key))

\* The cost of the edge between two neighbouring keys, as a path distance.
EdgeCost(a, b) == IF a[1] # b[1] /\ a[2] # b[2] THEN <<0, 1>> ELSE <<1, 0>>

\* The cost of a path as pathfind returns it, from the cell of key start.
RECURSIVE PathCost(_, _)
PathCost(start, path) ==
    IF path = <<>> THEN <<0, 0>>
    ELSE LET edge == EdgeCost(start, path[Len(path)])
             rest == PathCost(path[Len(path)], SubSeq(path, 1, Len(path) - 1))
         IN <<edge[1] + rest[1], edge[2] + rest[2]>>

\* The most edges a route of least cost has, on the maps checked.
MaxRoute == 12

\* The routes that extend by one edge a route of cost e[2] to the PASSABLE
\* cell of key e[1]: the edge is one whose travel status is not BLOCKED.
Extended(m, sc, opts, e) ==
    {<<n, <<e[2][1] + EdgeCost(e[1], n)[1], e[2][2] + EdgeCost(e[1], n)[2]>>>> :
        n \in {k \in {<<e[1][1] + dx, e[1][2] + dy>> :
                         dx \in {-sc, 0, sc}, dy \in {-sc, 0, sc}} \ {e[1]} :
                  get_travel_status(m, sc, opts, e[1][1], e[1][2], k[1], k[2]) # BLOCKED}}

\* The least costs of the routes of at most rounds more edges: known holds
\* <<key, cost>> for the keys reached so far; a route goes through PASSABLE
\* cells only.
RECURSIVE LeastCosts(_, _, _, _, _)
LeastCosts(m, sc, opts, known, rounds) ==
    IF rounds = 0 THEN known
    ELSE Only({IF least = known THEN known
               ELSE LeastCosts(m, sc, opts, least, rounds - 1) :
               least \in {Only({{e \in reached : \A f \in reached :
                                     f[1] = e[1] => ~DistanceLess(f[2], e[2])} :
                   reached \in {known \cup UNION {Extended(m, sc, opts, e) :
                       e \in {f \in known : StatusAt(m, opts, f[1]) = PASSABLE}}}})}})

\* What the last call of pathfind returned.
Returned == step_trace[Len(step_trace)][2]

\* C21: when pathfind returns a non-empty path, the goal (index 0) is an
\* UNKNOWN cell, the cost of the path (the sum of the Euclidean key distances
\* of its edges) is the least cost of a route from the current cell to that
\* goal, and no UNKNOWN cell can be reached at a smaller cost, a route going
\* through PASSABLE cells over edges whose travel status is not BLOCKED.
C21_AsClaimed ==
    (step_trace # <<>> /\ Returned # <<>>) =>
        LET start == get_key(scale, pos[1], pos[2], 1)
            cost == PathCost(start, Returned)
        IN /\ StatusAt(map, explorer_options, Returned[1]) = UNKNOWN
           /\ \A e \in LeastCosts(map, scale, explorer_options, {<<start, <<0, 0>>>>}, MaxRoute) :
                  StatusAt(map, explorer_options, e[1]) = UNKNOWN =>
                      ~DistanceLess(e[2], cost)

----------------------------------------------------------------------------
(* Claims about an explorer planning over a map its slam holds *)

\* The entries of step_trace' that are calls of pathfind, and the commands.
PathfindCalls == {i \in DOMAIN step_trace' : step_trace'[i][1] = "pathfind"}
Commands == {i \in DOMAIN step_trace' : step_trace'[i][1] = "move_observe_and_update"}

\* The cached path, at the start of a step, is non-empty and its goal
\* (index 0) is still UNKNOWN.
GoalStillUnknown ==
    /\ Len(current_path) > 0
    /\ StatusAt(map, explorer_options,
                get_key(scale, current_path[1][1], current_path[1][2], 1)) = UNKNOWN

\* The travel status from the current position to the cell i of the cached path.
TravelTo(i) ==
    get_travel_status(map, scale, explorer_options, pos[1], pos[2],
                      current_path[i][1], current_path[i][2])

\* The step leaves of path all but its tail.
TailPopped(path) == current_path' = SubSeq(path, 1, Len(path) - 1)

EightNeighbours(a, b) ==
    /\ a # b
    /\ Abs(a[1] - b[1]) \in {0, scale}
    /\ Abs(a[2] - b[2]) \in {0, scale}

\* What the claim says of a path found from the position (x, y) on the map m:
\* the goal, at index 1 here, is UNKNOWN and every other cell PASSABLE, the
\* start is not in it, no cell is in it twice, each cell is around the one
\* after it and the last around the start, and no travel along it is BLOCKED.
PathShape(m, opts, x, y, path) ==
    LET start == get_key(scale, x, y, 1)
        from(i) == IF i = Len(path) THEN start ELSE path[i + 1]
    IN /\ StatusAt(m, opts, path[1]) = UNKNOWN
       /\ \A i \in 2..Len(path) : StatusAt(m, opts, path[i]) = PASSABLE
       /\ \A i \in DOMAIN path : path[i] # start
       /\ \A i, j \in DOMAIN path : i # j => path[i] # path[j]
       /\ \A i \in DOMAIN path :
              /\ EightNeighbours(from(i), path[i])
              /\ get_travel_status(m, scale, opts, from(i)[1], from(i)[2],
                                   path[i][1], path[i][2]) # BLOCKED

\* Whether turning by theta and going distance leads from the estimated
\* position to the cell key.
LeadsTo(theta, distance, key) ==
    /\ pos[1] + distance * CosQ(pos[3] + theta) = key[1]
    /\ pos[2] + distance * SinQ(pos[3] + theta) = key[2]

RECURSIVE Reachable(_, _, _)
Reachable(m, opts, known) ==
    Only({IF more = known THEN known ELSE Reachable(m, opts, more) :
          more \in {known \cup UNION {{e[1] : e \in Extended(m, scale, opts, <<k, <<0, 0>>>>)} :
                        k \in {f \in known : StatusAt(m, opts, f) = PASSABLE}}}})

\* The key of the cell the explorer believes itself in.
Here == get_key(scale, pos[1], pos[2], 1)

----------------------------------------------------------------------------
(* Claims about the attempts of extract_ransac *)

\* The angle between two normalized angles, the short way round.
CircularGap(a, b) == Smaller((a - b) % tau, (b - a) % tau)

\* C25: every point offered for sampling in an attempt is unassociated, is
\* not the base point, and has its normalized angle within ransac_range of
\* that of the base point, the short way round the circle; so also when the
\* range of the base point reaches across the angle zero.
C25_AsClaimed ==
    "possible_points" \in DOMAIN lx_output =>
        \A i \in DOMAIN lx_output["possible_points"] :
            LET p == lx_output["possible_points"][i]
            IN /\ p \notin lx_input.associated
               /\ p # lx_output["point"]
               /\ CircularGap(p[3], lx_output["point"][3]) <= lx_input.ransac_range

----------------------------------------------------------------------------
(* Claims about the association of the observed landmarks by the EKF *)

\* The update that a step makes, and the belief it associates against: the
\* filter before the step with its pose moved.
ThisUpdate == ekf_calls'[Len(ekf_calls')]
MovedBelief ==
    move_belief(Ekf(landmark_types, landmark_counts, system_state, covariance),
                ekf_options, ThisUpdate.delta_theta, ThisUpdate.odemetry)

\* The landmarks held before the step that are of the kind of other.
SameKind(other) == {k \in 1..Len(landmark_types) : landmark_types[k] = other[3]}

\* The squared distance from the landmark k held before the step to other.
Apart2(k, other) ==
    Dist2R(system_state[RowOf(k)], system_state[RowOf(k) + 1], RInt(other[1]), RInt(other[2]))

\* The first of the landmarks of the kind of other that are nearest to it.
Nearest(other) ==
    CHOOSE k \in SameKind(other) :
        \A j \in SameKind(other) :
            /\ RLe(Apart2(k, other), Apart2(j, other))
            /\ j < k => Apart2(j, other) # Apart2(k, other)

\* nu^T S^-1 nu for the innovation nu = (n1, n2), written out for the two
\* by two matrix S.
QuadraticForm(S, n1, n2) ==
    RDiv(RAdd(RSub(RMul(S[2][2], RMul(n1, n1)),
                   RMul(RAdd(S[1][2], S[2][1]), RMul(n1, n2))),
              RMul(S[1][1], RMul(n2, n2))),
         Det2(S))

\* The gate of the landmark k and other, for the belief moved: S is the
\* innovation covariance of the landmark.
GateOf(moved, k, other) ==
    Only({QuadraticForm(S, RSub(system_state[RowOf(k)], RInt(other[1])),
                           RSub(system_state[RowOf(k) + 1], RInt(other[2]))) :
          S \in {landmark_innovation_covariance(
                     moved, k, landmark_error(ekf_options, PoseDist2(moved, k)))}})

\* The sum of the numbers of a sequence.
RECURSIVE SumOf(_)
SumOf(s) == IF s = <<>> THEN 0 ELSE Head(s) + SumOf(Tail(s))

\* By how much the counts of the landmarks held before the step have grown.
CountsRaised ==
    SumOf([k \in 1..Len(landmark_counts) |-> landmark_counts'[k] - landmark_counts[k]])

\* C26: in an update that returns, each observation is either associated,
\* which raises one count by one, or new, which adds one landmark, and never
\* both; an observation is associated only with a landmark held before, of
\* its own kind and nearest to it among those of its kind; with no landmark
\* of its kind held it is new; with one held it is new exactly when the gate
\* nu^T S^-1 nu of the nearest exceeds innovation_lambda.
C26_Association ==
    [][(ekf_calls' # ekf_calls /\ ~ThisUpdate.raised) =>
         /\ (Len(landmark_types') - Len(landmark_types)) + CountsRaised
                = Len(ThisUpdate.observed_landmarks)
         /\ \A moved \in {MovedBelief} :
            \A i \in DOMAIN ThisUpdate.observed_landmarks :
                LET other == ThisUpdate.observed_landmarks[i]
                    k == ThisUpdate.associated[i]
                IN /\ k # 0 => /\ k \in SameKind(other)
                               /\ \A j \in SameKind(other) :
                                      RLe(Apart2(k, other), Apart2(j, other))
                               /\ RLe(GateOf(moved, k, other),
                                      ekf_options.ekf_innovation_lambda)
                   /\ SameKind(other) = {} => k = 0
                   /\ (k = 0 /\ SameKind(other) # {}) =>
                          ~RLe(GateOf(moved, Nearest(other), other),
                               ekf_options.ekf_innovation_lambda)]_vars

\* An update over two landmarks of one kind has associated one observation
\* with the second of them, the nearer, and found another observation new
\* by the gate.
C26_Witness ==
    /\ Len(ekf_calls) = 2
    /\ ~LastUpdate.raised
    /\ ekf_calls[1].observed_landmarks = << <<0, 2, "statue">>, <<2, 0, "statue">> >>
    /\ ekf_calls[1].associated = <<0, 0>>
    /\ \E i \in DOMAIN LastUpdate.associated : LastUpdate.associated[i] = 2


\* The indices of the observations of an update that were not associated,
\* in order.
Unmatched(call) ==
    LET index == [i \in 1..Len(call.associated) |-> i]
        new(i) == call.associated[i] = 0
    IN SelectSeq(index, new)

\* C30: an update that returns associates its observations with landmarks
\* held before the call only; the number of landmarks grows by the number of
\* observations not associated; these are appended in the order observed,
\* each where it was observed and with the count 1, the corrections of the
\* Kalman gain having been made before; so two observations alike that are
\* not associated make two landmarks; and the count of a landmark associated
\* with k observations of the call grows by k.
C30_OneCallOfUpdate ==
    [][(ekf_calls' # ekf_calls /\ ~ThisUpdate.raised) =>
         LET held == Len(landmark_types)
             new == Unmatched(ThisUpdate)
         IN /\ \A i \in DOMAIN ThisUpdate.associated : ThisUpdate.associated[i] \in 0..held
            /\ Len(landmark_types') = held + Len(new)
            /\ Len(landmark_counts') = held + Len(new)
            /\ Len(system_state') = Len(system_state) + 2 * Len(new)
            /\ \A r \in DOMAIN new :
                   LET other == ThisUpdate.observed_landmarks[new[r]]
                   IN /\ landmark_types'[held + r] = other[3]
                      /\ landmark_counts'[held + r] = 1
                      /\ system_state'[RowOf(held + r)] = RInt(other[1])
                      /\ system_state'[RowOf(held + r) + 1] = RInt(other[2])
            /\ \A k \in 1..held :
                   landmark_counts'[k] = landmark_counts[k] + TimesMatched(ThisUpdate, k)]_vars

\* An update has made two landmarks of two observations alike, after the
\* landmark it held.
C30_Witness ==
    /\ Len(ekf_calls) = 2
    /\ ~LastUpdate.raised
    /\ LastUpdate.observed_landmarks = << <<2, 0, "statue">>, <<2, 0, "statue">> >>
    /\ LastUpdate.associated = <<0, 0>>
    /\ Len(landmark_types) = 3

----------------------------------------------------------------------------
(* Claims about what a call of record_observations records *)

\* The call that a step makes, its first observation and the geometry of
\* the line of that observation.
ThisCall == calls'[Len(calls')]
ThisLine ==
    LineCtx(scale, max_dist, ThisCall.x, ThisCall.y,
            AngleAdd(ThisCall.theta, ThisCall.observations[1].delta_theta),
            ThisCall.observations[1].distance)

\* The cells whose missed_count the step raised.
MissedNow ==
    {k \in DOMAIN map'.loc :
        get_location(map', k).missed_count > get_location(map, k).missed_count}

\* The cells of M that a chain of cells of M, each around the one before,
\* joins to a cell of S.
RECURSIVE Joined(_, _)
Joined(M, S) ==
    Only({IF more = S THEN S ELSE Joined(M, more) :
          more \in {S \cup {c \in M : \E d \in S : EightNeighbours(c, d)}}})

\* C27: a call with one observation, made from anywhere in the agent's cell,
\* whose end point, at the distance observed or at max_dist if that is less,
\* lies in a cell that is neither the agent's nor one of the eight around it,
\* raises missed_count in one cell at least, not in the agent's cell, and
\* the cells it raises it in make a chain, each cell around the one before,
\* from a cell around the agent's to a cell around that of the end point.
C27_AsClaimed ==
    [][(/\ calls' # calls
        /\ Len(ThisCall.observations) = 1
        /\ ThisCall.observations[1].distance.n >= 0
        /\ ThisLine.end_point_key # ThisLine.start_point_key
        /\ ~EightNeighbours(ThisLine.start_point_key, ThisLine.end_point_key))
       => /\ MissedNow # {}
          /\ ThisLine.start_point_key \notin MissedNow
          /\ \E a \in MissedNow : EightNeighbours(a, ThisLine.start_point_key)
          /\ \E b \in MissedNow : EightNeighbours(b, ThisLine.end_point_key)
          /\ \A a \in MissedNow : Joined(MissedNow, {a}) = MissedNow]_vars

\* The sum of a counter over the cells of the map.
SumOver(count(_)) == SumOf([i \in 1..Len(map.keys) |-> count(map.loc[map.keys[i]])])

SteppedCount(location) == location.stepped_count
HitCount(location) == location.hit_count

\* How many observations of the calls made had a distance from 0 to max_dist.
ReturnedIn(call) ==
    Cardinality({i \in DOMAIN call.observations :
                    /\ call.observations[i].distance.n >= 0
                    /\ WithinMax(call.observations[i].distance, max_dist)})

\* C28: the stepped counts of the map add up to the number of calls made and
\* its hit counts to the number of observations, of those calls, whose
\* distance lies from 0 to max_dist: an observation beyond max_dist or with
\* a negative distance raises no hit count.
C28_AsClaimed ==
    /\ SumOver(SteppedCount) = Len(calls)
    /\ SumOver(HitCount) = SumOf([c \in 1..Len(calls) |-> ReturnedIn(calls[c])])

============================================================================
